---- MODULE Spec2Model ----
(***************************************************************************)
(* Model of the scene-tree-to-React compiler of dataExtraction_figma:      *)
(*   - generateComponentCode / generateNodeComponent / detectComponentType *)
(*     of the MUI server (src/unnamed/part_003, lines 216-543);            *)
(*   - generateComponent / generateElement / getCommonStyles /             *)
(*     escapeJSXText of src/server/index.js.                               *)
(*                                                                         *)
(* Strings whose characters matter (names, text content) are sequences of  *)
(* one-character strings.  Markup is modelled as the sequence of emitted   *)
(* elements in output-text order; each element records the input node it   *)
(* was emitted for (src, the path of child indexes from the data array).   *)
(***************************************************************************)
EXTENDS Integers, Sequences, FiniteSets, TLC

VARIABLES
    pc,        \* which run this behaviour is: "tree", "calls", "escape", "classify",
               \* "name", "mui", "api", "weight", "style", "svg", "extract", "plugin"
    data,      \* request payload: the array of root nodes
    jsx,       \* result of generateComponentCode(data)      (part_003)
    elem,      \* result of generateComponent(data, name)    (server/index.js)
    log,       \* completed generateComponentCode calls, oldest first
    text,      \* a literal text string handed to the escaping helpers
    escaped,   \* the two escaped forms of text
    widget,    \* result of detectComponentType(data[1])
    result,    \* result of the style, escaping or extraction function a run applies
    reqs,      \* per connection, the HTTP request of a server run: handler position,
               \* body, handler locals, responses sent
    fs,        \* the file system the servers write to
    ran,       \* what a server run has done so far: commands run, requests received
    componentName,  \* the component names the two handlers compute for data
    plugin     \* the Figma plugin: selection, extractions in flight, messages posted

compilerVars == <<pc, data, jsx, elem, log, text, escaped, widget, result>>
serverVars == <<reqs, fs, ran, componentName>>
pluginVars == <<plugin>>
vars == <<compilerVars, serverVars, pluginVars>>

----------------------------------------------------------------------------
(* Bounds *)

MaxNodes == 3       \* nodes in one request payload
MaxIdNodes == 4     \* nodes in one request payload of the identifier runs
MaxCalls == 3       \* generateComponentCode calls in one behaviour
MaxTextLen == 3     \* characters of a literal text string

----------------------------------------------------------------------------
(* Optional values: undefined is <<>>, a defined value v is <<v>> *)

None == <<>>
Some(v) == <<v>>

(* Characters *)
SQ == "'"
DQ == "\""
BS == "\\"
LF == "\n"
CR == "\r"
TAB == "\t"
SP == " "

UpperChars == <<"A","B","C","D","E","F","G","H","I","J","K","L","M",
                "N","O","P","Q","R","S","T","U","V","W","X","Y","Z">>
LowerChars == <<"a","b","c","d","e","f","g","h","i","j","k","l","m",
                "n","o","p","q","r","s","t","u","v","w","x","y","z">>

\* String.prototype.toLowerCase on one character
lowerChar(c) ==
    IF \E i \in 1..Len(UpperChars) : UpperChars[i] = c
    THEN LowerChars[CHOOSE i \in 1..Len(UpperChars) : UpperChars[i] = c]
    ELSE c

\* String.prototype.toLowerCase
toLowerCase(s) == [i \in 1..Len(s) |-> lowerChar(s[i])]

\* String.prototype.includes
includes(s, sub) ==
    \E i \in 1..(Len(s) - Len(sub) + 1) : SubSeq(s, i, i + Len(sub) - 1) = sub

\* String.prototype.replace(/c/g, to) for a one-character pattern c
RECURSIVE replaceAll(_, _, _)
replaceAll(s, c, to) ==
    IF s = <<>> THEN <<>>
    ELSE (IF Head(s) = c THEN to ELSE <<Head(s)>>) \o replaceAll(Tail(s), c, to)

----------------------------------------------------------------------------
(* Names used by the inputs *)

nBox == <<"B","o","x">>
nCard == <<"C","a","r","d">>
nLabel == <<"L","a","b","e","l">>
nSubmitButton == <<"S","u","b","m","i","t"," ","B","u","t","t","o","n">>
nBtn == <<"O","k","B","T","N">>
nInput == <<"I","n","p","u","t">>
nField == <<"n","a","m","e","_","f","i","e","l","d">>
nSearch == <<"S","e","a","r","c","h"," ","h","i","n","t">>
nCheckbox == <<"C","h","e","c","k","B","o","x">>
nTick == <<"t","i","c","k","e","t">>
nSearchButton == <<"s","e","a","r","c","h","-","b","t","n">>
nTickField == <<"T","i","c","k"," ","F","i","e","l","d">>

tHi == <<"H","i","!">>
tGo == <<"G","o">>

----------------------------------------------------------------------------
(* Node: the fields of the extracted node the compilers read.              *)
(*   x, y          optional numbers                                        *)
(*   visible       "true" | "false" | "undefined"                          *)
(*   layoutMode    "undefined" | "NONE" | "HORIZONTAL" | "VERTICAL"        *)
(*   textContent   character sequence, <<>> when absent or empty           *)
(*   svg, svgBase64, image: the payload string, by the prefix tests the    *)
(*     code applies to it: "" (absent or empty), "markup" (does not start  *)
(*     with 'data:'), "b64svg" ('data:image/svg+xml;base64,' followed by   *)
(*     the encoding of non-empty markup), "b64empty" (that prefix followed *)
(*     by data decoding to the empty string), "datauri" (any other string  *)
(*     starting with 'data:')                                              *)
(*   children      sequence of nodes, <<>> when absent or empty            *)

Node(name, type, x, y, visible, layoutMode, textContent, svg, svgBase64, image, children) ==
    [name |-> name, type |-> type, x |-> x, y |-> y, visible |-> visible,
     layoutMode |-> layoutMode, textContent |-> textContent,
     svg |-> svg, svgBase64 |-> svgBase64, image |-> image, children |-> children]

\* the node with the given children
withChildren(shape, kids) == [shape EXCEPT !.children = kids]

\* JavaScript truthiness of a string-valued payload or optional field
truthy(s) == s # "" /\ s # "undefined"

\* node at a path of 1-based indexes, the first into the data array
RECURSIVE nodeAt(_, _)
nodeAt(nodes, path) ==
    IF Len(path) = 1 THEN nodes[path[1]]
    ELSE nodeAt(nodes[path[1]].children, Tail(path))

\* proper and improper prefixes of a path
prefixes(path) == {SubSeq(path, 1, n) : n \in 1..Len(path)}

isPrefix(p, q) == Len(p) <= Len(q) /\ SubSeq(q, 1, Len(p)) = p

----------------------------------------------------------------------------
(* part_003: detectComponentType *)

ContainerTypes == {"FRAME", "INSTANCE", "GROUP", "COMPONENT"}

kwButton == <<"b","u","t","t","o","n">>
kwBtn == <<"b","t","n">>
kwInput == <<"i","n","p","u","t">>
kwField == <<"f","i","e","l","d">>
kwSearch == <<"s","e","a","r","c","h">>
kwCheckbox == <<"c","h","e","c","k","b","o","x">>
kwTick == <<"t","i","c","k">>

\* mutant of detectComponentType: the TextField test comes before the Button test
detectComponentTypeInputFirst(node) ==
    LET name == toLowerCase(node.name) IN
    IF includes(name, kwInput) \/ includes(name, kwField) \/ includes(name, kwSearch)
        THEN "TextField"
    ELSE IF (includes(name, kwButton) \/ includes(name, kwBtn)) /\ node.type \in ContainerTypes
        THEN "Button"
    ELSE IF includes(name, kwCheckbox) \/ includes(name, kwTick)
        THEN "Checkbox"
    ELSE IF node.type = "TEXT"
        THEN "Typography"
    ELSE "null"

detectComponentType(node) ==
    LET name == toLowerCase(node.name) IN
    IF (includes(name, kwButton) \/ includes(name, kwBtn)) /\ node.type \in ContainerTypes
        THEN "Button"
    ELSE IF includes(name, kwInput) \/ includes(name, kwField) \/ includes(name, kwSearch)
        THEN "TextField"
    ELSE IF includes(name, kwCheckbox) \/ includes(name, kwTick)
        THEN "Checkbox"
    ELSE IF node.type = "TEXT"
        THEN "Typography"
    ELSE "null"

----------------------------------------------------------------------------
(* part_003: generateNodeComponent *)

\* mutant of findTextChild: the last TEXT child instead of the first
findLastTextChild(children) ==
    IF \E i \in 1..Len(children) : children[i].type = "TEXT"
    THEN CHOOSE i \in 1..Len(children) :
            /\ children[i].type = "TEXT"
            /\ \A j \in (i + 1)..Len(children) : children[j].type # "TEXT"
    ELSE 0

\* Array.prototype.find(c => c.type === 'TEXT'): index of the first TEXT child, 0 if none
findTextChild(children) ==
    IF \E i \in 1..Len(children) : children[i].type = "TEXT"
    THEN CHOOSE i \in 1..Len(children) :
            /\ children[i].type = "TEXT"
            /\ \A j \in 1..(i - 1) : children[j].type # "TEXT"
    ELSE 0

\* lines 465-490: what the svg / image branch puts in content
\*   "svg" inline markup div, "img" image reference, "" nothing
assetContent(node) ==
    LET hasSVG == truthy(node.svg) \/ truthy(node.svgBase64)
        shouldUseSVG == hasSVG /\ node.type # "TEXT"
        svgContent == IF truthy(node.svg) THEN node.svg ELSE node.svgBase64
        \* Buffer.from(..., 'base64').toString('utf-8') of the data after the prefix
        decoded == IF svgContent = "b64svg" THEN "markup"
                   ELSE IF svgContent = "b64empty" THEN ""
                   ELSE svgContent
    IN  IF hasSVG /\ shouldUseSVG
        THEN IF decoded = "markup" THEN "svg"
             ELSE IF decoded = "datauri" THEN "img"
             ELSE ""
        ELSE IF truthy(node.image) THEN "img"
        ELSE ""

\* lines 492-502: the origin handed to the children
childrenOrigin(isRoot, layoutMode, coord, parentCoord) ==
    IF truthy(layoutMode) THEN 0
    ELSE IF isRoot
         THEN (LET root == IF coord # None THEN coord[1] ELSE 0
               IN  IF root < 0 THEN -root ELSE 0)
         ELSE (IF coord # None THEN coord[1] ELSE parentCoord)

\* lines 263-269: the node's own offset
relativeCoord(isRoot, coord, parentCoord) ==
    IF isRoot THEN 0
    ELSE IF coord # None THEN coord[1] - parentCoord ELSE 0

\* lines 250-518; returns the emitted elements of the subtree in output order
\* and the value of nodeCounter after the call
RECURSIVE generateNodeComponent(_, _, _, _, _, _)
RECURSIVE mapChildren(_, _, _, _, _, _, _)
RECURSIVE mapChildrenOwnIdsOnly(_, _, _, _, _, _, _)

\* mutant of mapChildren: the next sibling continues after its elder sibling's
\* own identifier, not after the identifiers of that sibling's subtree
mapChildrenOwnIdsOnly(children, i, depth, cx, cy, nodeCounter, path) ==
    IF i > Len(children) THEN [frags |-> <<>>, nodeCounter |-> nodeCounter]
    ELSE LET first == generateNodeComponent(children[i], depth, cx, cy, nodeCounter,
                                            Append(path, i))
             rest == mapChildrenOwnIdsOnly(children, i + 1, depth, cx, cy,
                                           nodeCounter + 1, path)
         IN  [frags |-> first.frags \o rest.frags, nodeCounter |-> rest.nodeCounter]

generateNodeComponent(node, depth, parentX, parentY, nodeCounter, path) ==
    LET nodeId == nodeCounter
        isRoot == depth = 0
        relativeX == relativeCoord(isRoot, node.x, parentX)
        relativeY == relativeCoord(isRoot, node.y, parentY)
        componentType == detectComponentType(node)
        autoLayout == node.layoutMode \in {"HORIZONTAL", "VERTICAL"}
        \* lines 277-308
        position == IF autoLayout \/ isRoot THEN "relative" ELSE "absolute"
        display == IF autoLayout THEN "flex"
                   ELSE IF node.visible # "false" THEN "block" ELSE "none"
        left == IF isRoot \/ autoLayout THEN None ELSE Some(relativeX)
        top == IF isRoot \/ autoLayout THEN None ELSE Some(relativeY)
        textChild == findTextChild(node.children)
        childText == IF textChild # 0 THEN node.children[textChild].textContent ELSE <<>>
        semantic(el, txt) ==
            [frags |-> << [src |-> path, key |-> nodeId, element |-> el,
                           position |-> "absolute",
                           left |-> Some(relativeX), top |-> Some(relativeY),
                           display |-> "", content |-> "", text |-> txt] >>,
             nodeCounter |-> nodeCounter + 1]
        isText == node.type = "TEXT" /\ node.textContent # <<>>
        content == IF isText THEN "text" ELSE assetContent(node)
        childrenX == childrenOrigin(isRoot, node.layoutMode, node.x, parentX)
        childrenY == childrenOrigin(isRoot, node.layoutMode, node.y, parentY)
        kids == mapChildren(node.children, 1, depth + 1, childrenX, childrenY,
                            nodeCounter + 1, path)
        own == [src |-> path, key |-> nodeId,
                element |-> IF node.type = "TEXT" THEN "span" ELSE "div",
                position |-> position, left |-> left, top |-> top,
                display |-> display, content |-> content,
                text |-> IF isText THEN replaceAll(node.textContent, SQ, <<BS, SQ>>)
                         ELSE <<>>]
    IN  IF componentType = "Button"
            THEN semantic("Button", IF childText # <<>> THEN childText
                                    ELSE <<"B","u","t","t","o","n">>)
        ELSE IF componentType = "TextField"
            THEN semantic("TextField",
                          replaceAll(IF childText # <<>> THEN childText ELSE node.name,
                                     DQ, <<"&","q","u","o","t",";">>))
        ELSE IF componentType = "Checkbox"
            THEN semantic("Checkbox", <<>>)
        ELSE [frags |-> <<own>> \o kids.frags, nodeCounter |-> kids.nodeCounter]

\* node.children.map(child => generateNodeComponent(child, depth + 1, childrenX, childrenY))
mapChildren(children, i, depth, cx, cy, nodeCounter, path) ==
    IF i > Len(children) THEN [frags |-> <<>>, nodeCounter |-> nodeCounter]
    ELSE LET first == generateNodeComponent(children[i], depth, cx, cy, nodeCounter,
                                            Append(path, i))
             rest == mapChildren(children, i + 1, depth, cx, cy, first.nodeCounter, path)
         IN  [frags |-> first.frags \o rest.frags, nodeCounter |-> rest.nodeCounter]

\* mutant of nodeCounterInit: a module-level counter that keeps the value the
\* previous call left behind
nodeCounterShared == jsx.nodeCounter

\* line 248: let nodeCounter = 0
nodeCounterInit == 0

\* lines 520-527: components.map(comp => generateNodeComponent(comp, 0, offX, offY))
RECURSIVE mapComponents(_, _, _)
mapComponents(components, i, nodeCounter) ==
    IF i > Len(components) THEN [frags |-> <<>>, nodeCounter |-> nodeCounter]
    ELSE LET comp == components[i]
             rootX == IF comp.x # None THEN comp.x[1] ELSE 0
             rootY == IF comp.y # None THEN comp.y[1] ELSE 0
             childrenOffsetX == IF rootX < 0 THEN -rootX ELSE 0
             childrenOffsetY == IF rootY < 0 THEN -rootY ELSE 0
             first == generateNodeComponent(comp, 0, childrenOffsetX, childrenOffsetY,
                                            nodeCounter, <<i>>)
             rest == mapComponents(components, i + 1, first.nodeCounter)
         IN  [frags |-> first.frags \o rest.frags, nodeCounter |-> rest.nodeCounter]

\* lines 246-543
generateComponentCode(components) ==
    LET main == mapComponents(components, 1, nodeCounterInit)
    IN  [done |-> TRUE, frags |-> main.frags, nodeCounter |-> main.nodeCounter]

----------------------------------------------------------------------------
(* server/index.js: escapeJSXText, getCommonStyles, generateElement, generateComponent *)

\* lines 329-339
escapeJSXText(t) ==
    replaceAll(replaceAll(replaceAll(replaceAll(replaceAll(t,
        BS, <<BS, BS>>), SQ, <<BS, SQ>>), LF, <<BS, "n">>), CR, <<BS, "r">>), TAB, <<BS, "t">>)

\* lines 157-163: the positional part of the style
getCommonStyles(node) ==
    [position |-> "absolute", left |-> node.x, top |-> node.y]

\* lines 371-433; returns the emitted elements of the subtree in output order
RECURSIVE generateElement(_, _)
RECURSIVE mapElements(_, _, _)

generateElement(node, path) ==
    LET styles == getCommonStyles(node)
        el(tag, content, txt) ==
            [src |-> path, element |-> tag, position |-> styles.position,
             left |-> styles.left, top |-> styles.top, content |-> content, text |-> txt]
    IN  IF node.visible # "true" THEN <<>>
        ELSE IF node.type = "TEXT"
            THEN << el("div", "text", escapeJSXText(node.textContent)) >>
        ELSE IF truthy(node.image) \/ truthy(node.svg) \/ truthy(node.svgBase64)
            THEN IF truthy(node.svg) THEN << el("div", "svg", <<>>) >>
                 ELSE << el("img", "img", <<>>) >>
        ELSE << el("div", "", <<>>) >> \o mapElements(node.children, 1, path)

\* node.children.map(generateElement)
mapElements(children, i, path) ==
    IF i > Len(children) THEN <<>>
    ELSE generateElement(children[i], Append(path, i)) \o mapElements(children, i + 1, path)

\* lines 436-473: the wrapper block of data[0] and the markup of its children
generateComponent(components) ==
    LET root == components[1]
    IN  [done |-> TRUE,
         wrapper |-> << [src |-> <<1>>, element |-> "div", position |-> "relative",
                         left |-> None, top |-> None, content |-> "", text |-> <<>>] >>,
         frags |-> mapElements(root.children, 1, <<1>>)]

----------------------------------------------------------------------------
(* Request payloads: every forest of at most MaxNodes nodes whose nodes are *)
(* drawn from a set of childless node shapes                                *)

RECURSIVE forest(_, _)
forest(shapes, n) ==
    IF n = 0 THEN {<<>>}
    ELSE UNION { { <<withChildren(s, g)>> \o f :
                     s \in shapes, g \in forest(shapes, k - 1), f \in forest(shapes, n - k) }
                 : k \in 1..n }

payloadsUpTo(shapes, max) == UNION { forest(shapes, n) : n \in 1..max }

payloads(shapes) == payloadsUpTo(shapes, MaxNodes)

\* all paths of the nodes of a forest
RECURSIVE paths(_, _)
paths(nodes, prefix) ==
    UNION { {Append(prefix, i)} \cup paths(nodes[i].children, Append(prefix, i))
            : i \in 1..Len(nodes) }

Frame(name, visible, layoutMode, svg, image) ==
    Node(name, "FRAME", Some(0), Some(0), visible, layoutMode, <<>>, svg, "", image, <<>>)

Text(name, visible, textContent, svg) ==
    Node(name, "TEXT", Some(0), Some(0), visible, "undefined", textContent, svg, "", "", <<>>)

Box(x, y, layoutMode) ==
    Node(nBox, "FRAME", x, y, "true", layoutMode, <<>>, "", "", "", <<>>)

\* visibility and auto layout
PruneShapes ==
    { Frame(nBox, v, l, "", "") : v \in {"true", "false"}, l \in {"undefined", "HORIZONTAL"} }
    \cup { Text(nLabel, v, tHi, "") : v \in {"true", "false"} }

\* rendering paths: text, vector, raster, container, semantic names
PathShapes ==
    { Frame(nBox, "true", "undefined", s, i) : s \in {"", "markup"}, i \in {"", "datauri"} }
    \cup { Text(n, "true", tHi, s) : n \in {nLabel, nSearch}, s \in {"", "markup"} }

\* coordinates
CoordShapes ==
    { Box(x, y, l) : x \in {Some(-50), Some(10)}, y \in {Some(-10), Some(10)},
                     l \in {"undefined", "HORIZONTAL"} }

\* identifiers: plain containers, text leaves, and a semantic container whose
\* children are not visited
IdShapes ==
    { Frame(nBox, "true", "undefined", "", ""),
      Frame(nBox, "false", "undefined", "", ""),
      Frame(nSubmitButton, "true", "undefined", "", ""),
      Text(nLabel, "true", tGo, "") }

\* the server variables of a run that involves no server
NoFs == [dirs |-> {}, files |-> <<>>]
NoRan == [scaffold |-> 0, install |-> 0, received |-> 0]
NoName == [done |-> FALSE, mui |-> <<>>, api |-> <<>>, apiThrew |-> FALSE]

NoResult == [done |-> FALSE, value |-> <<>>]
NoPlugin ==
    [selection |-> [version |-> 0, empty |-> TRUE], requested |-> 0,
     extracting |-> <<>>, posted |-> <<>>]

IdleServer ==
    /\ result = NoResult
    /\ plugin = NoPlugin
    /\ reqs = <<>>
    /\ fs = NoFs
    /\ ran = NoRan
    /\ componentName = NoName

NotRun == [done |-> FALSE, frags |-> <<>>, nodeCounter |-> 0]
NotRunElem == [done |-> FALSE, wrapper |-> <<>>, frags |-> <<>>]
NoEscaped == [jsx |-> <<>>, node |-> <<>>, done |-> FALSE]

----------------------------------------------------------------------------
(* Compiling one request payload with both compilers *)

InitPayload(inputs) ==
    /\ pc = "tree"
    /\ data \in inputs
    /\ jsx = NotRun
    /\ elem = NotRunElem
    /\ log = <<>>
    /\ text = <<>>
    /\ escaped = NoEscaped
    /\ widget = ""
    /\ IdleServer

\* part_003 line 644: generateComponentCode(data, componentName)
GenerateComponentCode ==
    /\ pc = "tree"
    /\ ~jsx.done
    /\ jsx' = generateComponentCode(data)
    /\ UNCHANGED <<pc, data, elem, log, text, escaped, widget, result, serverVars, pluginVars>>

\* server/index.js line 498: generateComponent(data, componentName, fontCSS)
GenerateComponent ==
    /\ pc = "tree"
    /\ ~elem.done
    /\ elem' = generateComponent(data)
    /\ UNCHANGED <<pc, data, jsx, log, text, escaped, widget, result, serverVars, pluginVars>>

NextTree == GenerateComponentCode \/ GenerateComponent

InitPrune == InitPayload(payloads(PruneShapes))
SpecPrune == InitPrune /\ [][NextTree]_vars

InitPaths == InitPayload(payloads(PathShapes))
SpecPaths == InitPaths /\ [][NextTree]_vars

InitCoords == InitPayload(payloads(CoordShapes))
SpecCoords == InitCoords /\ [][NextTree]_vars

InitIds == InitPayload(payloadsUpTo(IdShapes, MaxIdNodes))
SpecIds == InitIds /\ [][NextTree]_vars

----------------------------------------------------------------------------
(* Properties of the compiled markup *)

elems(s) == { s[i] : i \in DOMAIN s }

\* every element either compiler emitted for the current payload
allEmitted == elems(jsx.frags) \cup elems(elem.wrapper) \cup elems(elem.frags)

\* the node an element was emitted for
srcNode(f) == nodeAt(data, f.src)

\* elements emitted for descendants of the node at path p
below(frags, p) == { f \in elems(frags) : isPrefix(p, f.src) /\ f.src # p }

isLeafContent(f) == f.content \in {"text", "svg", "img"}

hasPayload(node) == truthy(node.svg) \/ truthy(node.svgBase64) \/ truthy(node.image)

----------------------------------------------------------------------------
\* C1 (pruning): no element is emitted for a node with visible = false or for
\* any of its descendants, by generateComponentCode or by generateComponent.
C1_Pruning ==
    \A f \in allEmitted :
        \A p \in prefixes(f.src) : nodeAt(data, p).visible # "false"

\* C2 (coordinate containment): when some node of the payload has a negative
\* x or y, every left and top emitted by generateNodeComponent is >= 0.
hasNegative(node) ==
    \/ (node.x # None /\ node.x[1] < 0)
    \/ (node.y # None /\ node.y[1] < 0)

C2_Containment ==
    (jsx.done /\ \E p \in paths(data, <<>>) : hasNegative(nodeAt(data, p)))
    => \A f \in elems(jsx.frags) :
          /\ f.left # None => f.left[1] >= 0
          /\ f.top # None => f.top[1] >= 0

\* C3 (negative-root offset): a root without layoutMode and with negative x
\* (resp. y) has each direct child emitted at left = child.x + |root.x|
\* (resp. top = child.y + |root.y|).
C3_RootOffset ==
    jsx.done =>
        \A f \in elems(jsx.frags) :
            (Len(f.src) = 2 /\ ~truthy(data[f.src[1]].layoutMode)) =>
                LET root == data[f.src[1]]
                    child == srcNode(f)
                IN  /\ (root.x # None /\ child.x # None /\ root.x[1] < 0)
                        => f.left = Some(child.x[1] - root.x[1])
                    /\ (root.y # None /\ child.y # None /\ root.y[1] < 0)
                        => f.top = Some(child.y[1] - root.y[1])

\* C4 (mutual exclusion of rendering paths): each node gets at most one
\* element, and an element carrying text or an asset has no markup of the
\* node's children next to it.
exclusivePaths(frags) ==
    \A f \in elems(frags) :
        /\ \A g \in elems(frags) : g.src = f.src => g = f
        /\ isLeafContent(f) => below(frags, f.src) = {}

C4_MutualExclusion ==
    exclusivePaths(jsx.frags) /\ exclusivePaths(elem.frags)

\* C5 (asset leaf): an emitted non-text node with a non-empty svg, svgBase64
\* or image payload is emitted as the asset, with no markup for its children.
assetLeaves(frags) ==
    \A f \in elems(frags) :
        (srcNode(f).type # "TEXT" /\ hasPayload(srcNode(f))) =>
            /\ f.content \in {"svg", "img"}
            /\ below(frags, f.src) = {}

C5_AssetLeaf ==
    assetLeaves(jsx.frags) /\ assetLeaves(elem.frags)

\* C6 (text priority): an emitted visible TEXT node with non-empty textContent
\* is a text leaf carrying its text content, whatever its name and payload.
textLeaves(frags) ==
    \A f \in elems(frags) :
        (srcNode(f).type = "TEXT" /\ srcNode(f).textContent # <<>>
                                  /\ srcNode(f).visible = "true") =>
            /\ f.content = "text"
            /\ f.text # <<>>

C6_TextPriority ==
    textLeaves(jsx.frags) /\ textLeaves(elem.frags)

----------------------------------------------------------------------------
\* C8 (identifier order): the identifiers of one call are 0,1,2,... without
\* gaps in output order, one per emitted node, and follow the depth-first
\* pre-order of the tree: a parent's is smaller than its descendants', an
\* earlier sibling's subtree's are smaller than a later sibling's.
preorderBefore(p, q) ==
    \/ (isPrefix(p, q) /\ p # q)
    \/ \E i \in 1..Len(p) :
          /\ i <= Len(q)
          /\ SubSeq(p, 1, i - 1) = SubSeq(q, 1, i - 1)
          /\ p[i] < q[i]

C8_IdentifierOrder ==
    jsx.done =>
        /\ \A i \in DOMAIN jsx.frags : jsx.frags[i].key = i - 1
        /\ jsx.nodeCounter = Len(jsx.frags)
        /\ \A f \in elems(jsx.frags) : \A g \in elems(jsx.frags) :
              preorderBefore(f.src, g.src) => f.key < g.key

\* a root whose first child has a child of its own and whose second child
\* follows, all four emitted
C8_Witness ==
    /\ jsx.done
    /\ {f.src : f \in elems(jsx.frags)} = {<<1>>, <<1, 1>>, <<1, 1, 1>>, <<1, 2>>}

----------------------------------------------------------------------------
(* Repeated compilations (part_003 generateComponentCode called per request) *)

CallShapes ==
    { Frame(nBox, "true", "undefined", "", ""), Text(nLabel, "true", tGo, "") }

CallPayloads == payloadsUpTo(CallShapes, 2)

InitCalls ==
    /\ pc = "calls"
    /\ data = <<>>
    /\ jsx = NotRun
    /\ elem = NotRunElem
    /\ log = <<>>
    /\ text = <<>>
    /\ escaped = NoEscaped
    /\ widget = ""
    /\ IdleServer

\* one more call of generateComponentCode, on any payload
CallGenerateComponentCode ==
    /\ pc = "calls"
    /\ Len(log) < MaxCalls
    /\ \E t \in CallPayloads :
          /\ data' = t
          /\ jsx' = generateComponentCode(t)
          /\ log' = Append(log, [data |-> t, out |-> generateComponentCode(t)])
    /\ UNCHANGED <<pc, elem, text, escaped, widget, result, serverVars, pluginVars>>

NextCalls == CallGenerateComponentCode
SpecCalls == InitCalls /\ [][NextCalls]_vars

----------------------------------------------------------------------------
(* Classification of one node *)

ClassifyNames ==
    { nBox, nCard, nLabel, nSubmitButton, nBtn, nInput, nField, nSearch,
      nCheckbox, nTick, nSearchButton, nTickField }

ClassifyTypes == {"FRAME", "INSTANCE", "GROUP", "COMPONENT", "TEXT", "RECTANGLE", "VECTOR"}

ClassifyNodes ==
    { Node(n, t, Some(0), Some(0), "true", "undefined", tc, s, "", "", <<>>) :
        n \in ClassifyNames, t \in ClassifyTypes, tc \in {<<>>, tHi}, s \in {"", "markup"} }

InitClassify ==
    /\ pc = "classify"
    /\ data \in { <<n>> : n \in ClassifyNodes }
    /\ jsx = NotRun
    /\ elem = NotRunElem
    /\ log = <<>>
    /\ text = <<>>
    /\ escaped = NoEscaped
    /\ widget = ""
    /\ IdleServer

\* part_003 line 271: const componentType = detectComponentType(node)
DetectComponentType ==
    /\ pc = "classify"
    /\ widget = ""
    /\ widget' = detectComponentType(data[1])
    /\ UNCHANGED <<pc, data, jsx, elem, log, text, escaped, result, serverVars, pluginVars>>

NextClassify == DetectComponentType
SpecClassify == InitClassify /\ [][NextClassify]_vars

\* the name contains the keyword, letter case ignored
containsCI(name, kw) ==
    \E i \in 1..(Len(name) - Len(kw) + 1) :
        \A k \in 1..Len(kw) : lowerChar(name[i + k - 1]) = kw[k]

\* C10 (classifier): the result is decided by name and type alone, first
\* match of: Button (button/btn and a container type), TextField
\* (input/field/search), Checkbox (checkbox/tick), Typography (TEXT), null.
C10_Classifier ==
    widget # "" =>
        LET n == data[1]
            b == (containsCI(n.name, kwButton) \/ containsCI(n.name, kwBtn))
                 /\ n.type \in {"FRAME", "INSTANCE", "GROUP", "COMPONENT"}
            t == containsCI(n.name, kwInput) \/ containsCI(n.name, kwField)
                 \/ containsCI(n.name, kwSearch)
            c == containsCI(n.name, kwCheckbox) \/ containsCI(n.name, kwTick)
        IN  /\ widget = "Button" <=> b
            /\ widget = "TextField" <=> (~b /\ t)
            /\ widget = "Checkbox" <=> (~b /\ ~t /\ c)
            /\ widget = "Typography" <=> (~b /\ ~t /\ ~c /\ n.type = "TEXT")
            /\ widget = "null" <=> (~b /\ ~t /\ ~c /\ n.type # "TEXT")

\* a container whose name matches both the Button and the TextField keywords
C10_Witness ==
    /\ widget = "Button"
    /\ data[1].name = nSearchButton

----------------------------------------------------------------------------
(* Escaping of literal text *)

TextAlphabet == {SQ, DQ, BS, LF, CR, TAB, "a", "n"}

RECURSIVE strings(_, _)
strings(alphabet, n) ==
    IF n = 0 THEN {<<>>}
    ELSE strings(alphabet, n - 1)
         \cup { Append(t, c) : t \in strings(alphabet, n - 1), c \in alphabet }

InitEscape ==
    /\ pc = "escape"
    /\ text \in strings(TextAlphabet, MaxTextLen)
    /\ data = <<>>
    /\ jsx = NotRun
    /\ elem = NotRunElem
    /\ log = <<>>
    /\ escaped = NoEscaped
    /\ widget = ""
    /\ IdleServer

\* server/index.js line 386: escapeJSXText(node.textContent), embedded as {'...'}
\* part_003 line 461: node.textContent.replace(/'/g, "\\'"), embedded as the
\* text child of a <span>
EscapeText ==
    /\ pc = "escape"
    /\ ~escaped.done
    /\ escaped' = [jsx |-> escapeJSXText(text),
                   node |-> replaceAll(text, SQ, <<BS, SQ>>),
                   done |-> TRUE]
    /\ UNCHANGED <<pc, data, jsx, elem, log, text, widget, result, serverVars, pluginVars>>

NextEscape == EscapeText
SpecEscape == InitEscape /\ [][NextEscape]_vars

\* the string denoted by the body of a single-quoted JavaScript string
\* literal; ok is FALSE when the body is not a well-formed literal body
RECURSIVE jsStringValue(_)
jsStringValue(s) ==
    IF s = <<>> THEN [ok |-> TRUE, val |-> <<>>]
    ELSE IF Head(s) = BS
        THEN IF Len(s) = 1 THEN [ok |-> FALSE, val |-> <<>>]
             ELSE LET c == s[2]
                      rest == jsStringValue(SubSeq(s, 3, Len(s)))
                      v == IF c = "n" THEN <<LF>>
                           ELSE IF c = "r" THEN <<CR>>
                           ELSE IF c = "t" THEN <<TAB>>
                           ELSE IF c \in {LF, CR} THEN <<>>
                           ELSE <<c>>
                  IN  [ok |-> rest.ok, val |-> v \o rest.val]
    ELSE IF Head(s) \in {SQ, LF, CR}
        THEN [ok |-> FALSE, val |-> <<>>]
    ELSE LET rest == jsStringValue(Tail(s))
         IN  [ok |-> rest.ok, val |-> <<Head(s)>> \o rest.val]

\* the lines of a string, split at line terminators
RECURSIVE splitLines(_, _)
splitLines(s, line) ==
    IF s = <<>> THEN <<line>>
    ELSE IF Head(s) \in {LF, CR} THEN <<line>> \o splitLines(Tail(s), <<>>)
    ELSE splitLines(Tail(s), Append(line, Head(s)))

RECURSIVE trimStart(_)
trimStart(s) == IF s # <<>> /\ Head(s) = SP THEN trimStart(Tail(s)) ELSE s

RECURSIVE trimEnd(_)
trimEnd(s) ==
    IF s # <<>> /\ s[Len(s)] = SP THEN trimEnd(SubSeq(s, 1, Len(s) - 1)) ELSE s

RECURSIVE joinLines(_)
joinLines(lines) ==
    IF lines = <<>> THEN <<>>
    ELSE IF Len(lines) = 1 THEN lines[1]
    ELSE lines[1] \o <<SP>> \o joinLines(Tail(lines))

\* the string rendered for text placed on lines of its own between a JSX
\* opening and closing tag: no escape sequences, tabs read as spaces, each
\* line trimmed, empty lines dropped, the remaining lines joined by a space
jsxTextValue(s) ==
    LET lines == splitLines(replaceAll(s, TAB, <<SP>>), <<>>)
        trimmed == [i \in 1..Len(lines) |-> trimEnd(trimStart(lines[i]))]
    IN  joinLines(SelectSeq(trimmed, LAMBDA l : l # <<>>))

\* C9 (escaping round trip): the text embedded by generateElement read as a
\* single-quoted literal, and the text embedded by generateNodeComponent read
\* as JSX text, both give back the original string.
C9_RoundTrip ==
    escaped.done =>
        /\ jsStringValue(escaped.jsx) = [ok |-> TRUE, val |-> text]
        /\ jsxTextValue(escaped.node) = text

\* the half of C9 that concerns escapeJSXText alone
C9_EscapeJSXTextRoundTrip ==
    escaped.done => jsStringValue(escaped.jsx) = [ok |-> TRUE, val |-> text]

----------------------------------------------------------------------------
(* Further payload shapes *)

\* a semantic container, text leaves with and without content, a plain container
ButtonShapes ==
    { Frame(nSubmitButton, "true", "undefined", "", ""),
      Frame(nBox, "true", "undefined", "", ""),
      Text(nLabel, "true", tGo, ""),
      Text(nLabel, "true", tHi, ""),
      Text(nLabel, "true", <<>>, "") }

\* roots of every name class, type and layout mode
RootShapes ==
    { Frame(n, "true", l, "", "") : n \in {nBox, nSubmitButton, nCheckbox},
                                    l \in {"undefined", "HORIZONTAL"} }
    \cup { Text(n, "true", tHi, "") : n \in {nLabel, nSearch} }

\* nodes with and without a visible field
VisibleShapes ==
    { Frame(nBox, v, "undefined", "", "") : v \in {"true", "undefined"} }
    \cup { Text(nLabel, v, tHi, "") : v \in {"true", "undefined"} }

\* vector nodes whose svgBase64 payload decodes, or decodes to nothing, with
\* and without a raster payload
AssetShapes ==
    { Node(nBox, "VECTOR", Some(0), Some(0), "true", "undefined", <<>>, "", b, i, <<>>) :
        b \in {"", "b64svg", "b64empty"}, i \in {"", "datauri"} }

InitButtons == InitPayload(payloads(ButtonShapes))
SpecButtons == InitButtons /\ [][NextTree]_vars

InitRoots == InitPayload(payloads(RootShapes))
SpecRoots == InitRoots /\ [][NextTree]_vars

InitVisible == InitPayload(payloads(VisibleShapes))
SpecVisible == InitVisible /\ [][NextTree]_vars

InitAssets == InitPayload(payloads(AssetShapes))
SpecAssets == InitAssets /\ [][NextTree]_vars

----------------------------------------------------------------------------
\* the TEXT children of a node that have content
textChildrenWithContent(node) ==
    { node.children[i] : i \in { j \in 1..Len(node.children) :
          node.children[j].type = "TEXT" /\ node.children[j].textContent # <<>> } }

isButtonNode(node) ==
    /\ node.type \in {"FRAME", "INSTANCE", "GROUP", "COMPONENT"}
    /\ (containsCI(node.name, kwButton) \/ containsCI(node.name, kwBtn))

\* C11 as claimed (button path): a container classified as Button that has a
\* TEXT child with content is one Button element labelled with the content of
\* such a child, with no markup for its children.
C11_ButtonLabel ==
    jsx.done =>
        \A f \in elems(jsx.frags) :
            (isButtonNode(srcNode(f)) /\ textChildrenWithContent(srcNode(f)) # {}) =>
                /\ f.element = "Button"
                /\ f.text \in { c.textContent : c \in textChildrenWithContent(srcNode(f)) }
                /\ below(jsx.frags, f.src) = {}
                /\ \A g \in elems(jsx.frags) : g.src = f.src => g = f

\* C11 as amended (button path): a container classified as Button whose first
\* TEXT child has content is one Button element labelled with that first TEXT
\* child's content, with no markup for its children.
firstTextChild(node) ==
    LET texts == SelectSeq(node.children, LAMBDA c : c.type = "TEXT")
    IN  IF texts = <<>> THEN <<>> ELSE texts[1].textContent

C11_ButtonFirstTextLabel ==
    jsx.done =>
        \A f \in elems(jsx.frags) :
            (isButtonNode(srcNode(f)) /\ firstTextChild(srcNode(f)) # <<>>) =>
                /\ f.element = "Button"
                /\ f.text = firstTextChild(srcNode(f))
                /\ below(jsx.frags, f.src) = {}
                /\ \A g \in elems(jsx.frags) : g.src = f.src => g = f

\* a Button container with two TEXT children of different content, emitted
C11_Witness ==
    /\ jsx.done
    /\ Len(data) = 1
    /\ data[1].name = nSubmitButton
    /\ Len(data[1].children) = 2
    /\ data[1].children[1].textContent = tGo
    /\ data[1].children[2].textContent = tHi
    /\ jsx.frags[1].text = tGo

\* C12 (root positioning): the markup of a root node is never positioned
\* absolutely and has no left/top, whatever its name, type and layoutMode.
C12_RootFlow ==
    \A f \in elems(jsx.frags) :
        Len(f.src) = 1 =>
            /\ f.position # "absolute"
            /\ f.left = None
            /\ f.top = None

\* the payload with every absent visible field set to true
RECURSIVE asVisible(_)
asVisible(nodes) ==
    [i \in 1..Len(nodes) |->
        [nodes[i] EXCEPT !.visible = IF @ = "undefined" THEN "true" ELSE @,
                         !.children = asVisible(@)]]

\* C15 (visibility default): a payload whose nodes lack the visible field is
\* compiled exactly as the same payload with visible = true, by both compilers.
C15_VisibleDefault ==
    /\ jsx.done => jsx = generateComponentCode(asVisible(data))
    /\ elem.done => elem = generateComponent(asVisible(data))

\* C20 (undecodable vector payload): a non-text node whose vector payload does
\* not decode is rendered from node.image when it has one, otherwise as a
\* container followed by its children.
undecodable(node) == ~truthy(node.svg) /\ node.svgBase64 = "b64empty"

C20_UndecodableVector ==
    jsx.done =>
        \A f \in elems(jsx.frags) :
            (srcNode(f).type # "TEXT" /\ undecodable(srcNode(f))) =>
                IF truthy(srcNode(f).image)
                THEN f.content = "img"
                ELSE /\ f.content = ""
                     /\ \A i \in 1..Len(srcNode(f).children) :
                           \E g \in elems(jsx.frags) : g.src = Append(f.src, i)

----------------------------------------------------------------------------
(* Component names *)

DigitChars == {"0", "1", "2", "3", "4", "5", "6", "7", "8", "9"}

LetterChars ==
    { UpperChars[i] : i \in 1..Len(UpperChars) } \cup { LowerChars[i] : i \in 1..Len(LowerChars) }

\* a JS object has the property
has(node, field) == field \in DOMAIN node

\* name.replace(/[^a-zA-Z0-9]/g, '')
stripNonAlnum(name) ==
    SelectSeq(name, LAMBDA c : c \in LetterChars \cup DigitChars)

DEFAULT_COMPONENT_NAME ==
    <<"F", "i", "g", "m", "a", "C", "o", "m", "p", "o", "n", "e", "n", "t">>

Frame1 == <<"F", "r", "a", "m", "e", "1">>

\* data[0]?.name?.replace(/[^a-zA-Z0-9]/g, '') || DEFAULT_COMPONENT_NAME
muiComponentName(nodes) ==
    IF nodes = <<>> \/ ~has(nodes[1], "name") THEN DEFAULT_COMPONENT_NAME
    ELSE IF stripNonAlnum(nodes[1].name) = <<>> THEN DEFAULT_COMPONENT_NAME
    ELSE stripNonAlnum(nodes[1].name)

\* data[0].name.replace(...) throws a TypeError when data[0] or its name is undefined
apiComponentNameThrows(nodes) == nodes = <<>> \/ ~has(nodes[1], "name")

\* data[0].name.replace(/[^a-zA-Z0-9]/g, '') || 'Frame1'
apiComponentName(nodes) ==
    IF stripNonAlnum(nodes[1].name) = <<>> THEN Frame1
    ELSE stripNonAlnum(nodes[1].name)

NameAlphabet == {"a", "Z", "1", " ", "-"}

\* one root, with a name over NameAlphabet or without a name
NamedRoots ==
    { <<[type |-> "FRAME", name |-> n]>> : n \in strings(NameAlphabet, MaxTextLen) }
    \cup { <<[type |-> "FRAME"]>> }

InitName ==
    /\ pc = "name"
    /\ data \in NamedRoots
    /\ jsx = NotRun
    /\ elem = NotRunElem
    /\ log = <<>>
    /\ text = <<>>
    /\ escaped = NoEscaped
    /\ widget = ""
    /\ IdleServer

\* the componentName line of both handlers, on the same request body
ComputeComponentName ==
    /\ pc = "name"
    /\ ~componentName.done
    /\ componentName' =
          [done |-> TRUE,
           mui |-> muiComponentName(data),
           api |-> IF apiComponentNameThrows(data) THEN <<>> ELSE apiComponentName(data),
           apiThrew |-> apiComponentNameThrows(data)]
    /\ UNCHANGED <<pluginVars, compilerVars, reqs, fs, ran>>

NextName == ComputeComponentName
SpecName == InitName /\ [][NextName]_vars

\* a JavaScript identifier over ASCII: a letter, _ or $ followed by letters,
\* digits, _ or $
isIdentifier(s) ==
    /\ s # <<>>
    /\ s[1] \in LetterChars \cup {"_", "$"}
    /\ \A i \in 1..Len(s) : s[i] \in LetterChars \cup DigitChars \cup {"_", "$"}

\* the name the claim describes: letters and digits kept, fallback when nothing is left
strippedOr(nodes, fallback) ==
    LET kept == IF has(nodes[1], "name")
                THEN SelectSeq(nodes[1].name,
                               LAMBDA c : c \in LetterChars \cup DigitChars)
                ELSE <<>>
    IN  IF kept = <<>> THEN fallback ELSE kept

\* C13 (name sanitization): for every root name, present or missing, both
\* handlers compute a valid identifier: the name with everything but letters
\* and digits removed, or the fixed fallback when nothing is left.
C13_NameSanitization ==
    componentName.done =>
        /\ ~componentName.apiThrew
        /\ isIdentifier(componentName.mui)
        /\ isIdentifier(componentName.api)
        /\ componentName.mui = strippedOr(data, DEFAULT_COMPONENT_NAME)
        /\ componentName.api = strippedOr(data, Frame1)

----------------------------------------------------------------------------
(* The servers: file system, requests and responses *)

MaxRequests == 2

\* the client connections of a run, each carrying one request at a time
Connections == {1}

File(dir, name, ext) == [dir |-> dir, name |-> name, ext |-> ext]
Dir(dir) == File(dir, <<>>, "")
NoPath == File("", <<>>, "")

PROJECT_DIR == Dir("react-app")
SRC_DIR == Dir("react-app/src")
COMPONENTS_DIR == Dir("react-app/src/components")
PUBLIC_DIR == Dir("react-app/public")
FONTS_DIR == Dir("react-app/public/fonts")

nApp == <<"A", "p", "p">>
nIndex == <<"i", "n", "d", "e", "x">>
nTailwindConfig == <<"t", "a", "i", "l", "w", "i", "n", "d", ".", "c", "o", "n", "f", "i", "g">>
nPostcssConfig == <<"p", "o", "s", "t", "c", "s", "s", ".", "c", "o", "n", "f", "i", "g">>

appJSPath == File(SRC_DIR.dir, nApp, "js")
appJSXPath == File(SRC_DIR.dir, nApp, "jsx")
indexCSSPath == File(SRC_DIR.dir, nIndex, "css")
indexHtmlPath == File(PUBLIC_DIR.dir, nIndex, "html")
tailwindConfigPath == File(PROJECT_DIR.dir, nTailwindConfig, "js")
postcssConfigPath == File(PROJECT_DIR.dir, nPostcssConfig, "js")
\* mutant of componentPath: one file for every component
componentPathShared(name) == File(COMPONENTS_DIR.dir, nApp, "jsx")

componentPath(name) == File(COMPONENTS_DIR.dir, name, "jsx")
cssPath(name) == File(COMPONENTS_DIR.dir, name, "css")

\* the directories fs.mkdir(dirPath, { recursive: true }) leaves in place
madeBy(dirPath) ==
    CASE dirPath = PROJECT_DIR -> {PROJECT_DIR}
      [] dirPath = SRC_DIR -> {PROJECT_DIR, SRC_DIR}
      [] dirPath = PUBLIC_DIR -> {PROJECT_DIR, PUBLIC_DIR}
      [] dirPath = COMPONENTS_DIR -> {PROJECT_DIR, SRC_DIR, COMPONENTS_DIR}
      [] dirPath = FONTS_DIR -> {PROJECT_DIR, PUBLIC_DIR, FONTS_DIR}

mkdir(fsys, dirPath) == [fsys EXCEPT !.dirs = @ \cup madeBy(dirPath)]

writeFile(fsys, path, content) ==
    [fsys EXCEPT !.files = [p \in DOMAIN fsys.files \cup {path} |->
                               IF p = path THEN content ELSE fsys.files[p]]]

\* mutant of directoryExists: the path is never found
directoryNeverExists(fsys, path) == FALSE

\* fs.access(path) succeeds, for a directory or a file
directoryExists(fsys, path) == path \in fsys.dirs \/ path \in DOMAIN fsys.files

\* a file can be written where its directory exists
writable(fsys, path) == Dir(path.dir) \in fsys.dirs

\* what npx create-react-app leaves behind when it succeeds
scaffolded(fsys) ==
    LET made == [fsys EXCEPT !.dirs = @ \cup {PROJECT_DIR, SRC_DIR, PUBLIC_DIR}]
    IN  writeFile(writeFile(writeFile(made,
            appJSPath, [kind |-> "template"]),
            indexCSSPath, [kind |-> "template"]),
            indexHtmlPath, [kind |-> "template"])

\* error.message of a rejected fs or exec promise, of a TypeError
Message(message, about) == [message |-> message, about |-> about]

NoBody == [hasData |-> FALSE, data |-> <<>>]

NoRequest ==
    [at |-> "idle", body |-> NoBody, componentName |-> <<>>, fonts |-> <<>>,
     lookups |-> <<>>, fontCSS |-> <<>>, fontCSSReturned |-> FALSE,
     fontThrew |-> FALSE, compiled |-> FALSE, wrote |-> {}, threw |-> "",
     responses |-> <<>>]

\* res.json / res.status(...).json of the request on a connection
respond(req, response) ==
    [req EXCEPT !.at = "done", !.responses = Append(@, response)]

\* part_003: res.status(400).json({ error: 'No data provided' })
muiNoData == [status |-> 400, body |-> [error |-> Message("No data provided", NoPath)]]

\* mutant of muiError: the catch block answers success
muiErrorAsSuccess(message) == [status |-> 200, body |-> [success |-> TRUE, error |-> message]]

\* part_003: res.status(500).json({ success: false, error: error.message })
muiError(message) == [status |-> 500, body |-> [success |-> FALSE, error |-> message]]

\* part_003: res.json({ success: true, message, componentPath })
muiSuccess(name) ==
    [status |-> 200,
     body |-> [success |-> TRUE, message |-> name, componentPath |-> componentPath(name)]]

\* the catch block of the /generate-component handler, entered from position at
muiCatch(req, message) == [respond(req, muiError(message)) EXCEPT !.threw = req.at]

\* generateCSS(componentName): the one rule's class name
generateCSS(name) == [container |-> toLowerCase(name)]

ServerPayloads ==
    { <<>>,
      <<Frame(nBox, "true", "undefined", "", "")>>,
      <<withChildren(Frame(nCard, "true", "undefined", "", ""),
                     <<Text(nLabel, "true", tHi, "")>>)>> }

MuiBodies == {NoBody} \cup { [hasData |-> TRUE, data |-> d] : d \in ServerPayloads }

InitServer(kind) ==
    /\ pc = kind
    /\ data = <<>>
    /\ jsx = NotRun
    /\ elem = NotRunElem
    /\ log = <<>>
    /\ text = <<>>
    /\ escaped = NoEscaped
    /\ widget = ""
    /\ result = NoResult
    /\ plugin = NoPlugin
    /\ reqs = [c \in Connections |-> NoRequest]
    /\ fs \in {NoFs, scaffolded(NoFs)}
    /\ ran = NoRan
    /\ componentName = NoName

idle(c) == reqs[c].at \in {"idle", "done"}

\* POST /generate-component arrives while no request is being served:
\* const { data } = req.body; if (!data) return res.status(400)...;
\* then createReactApp() awaits directoryExists(PROJECT_DIR)
MuiReceive(c) ==
    /\ pc = "mui"
    /\ \A d \in Connections : idle(d)
    /\ ran.received < MaxRequests
    /\ \E body \in MuiBodies :
          LET req == [NoRequest EXCEPT !.body = body]
          IN  reqs' = [reqs EXCEPT ![c] =
                  IF ~body.hasData THEN respond(req, muiNoData)
                  ELSE [req EXCEPT !.at = "access PROJECT_DIR"]]
    /\ ran' = [ran EXCEPT !.received = @ + 1]
    /\ UNCHANGED <<pluginVars, compilerVars, fs, componentName>>

\* createReactApp: if (await directoryExists(PROJECT_DIR)) return;
MuiProjectChecked(c) ==
    /\ pc = "mui"
    /\ reqs[c].at = "access PROJECT_DIR"
    /\ reqs' = [reqs EXCEPT ![c].at =
          IF directoryExists(fs, PROJECT_DIR) THEN "ensureDirectory"
          ELSE "exec create-react-app"]
    /\ UNCHANGED <<pluginVars, compilerVars, fs, ran, componentName>>

\* createReactApp: await execAsync('npx create-react-app react-app'); a failed
\* run may or may not leave the project directory behind
MuiScaffold(c) ==
    /\ pc = "mui"
    /\ reqs[c].at = "exec create-react-app"
    /\ ran' = [ran EXCEPT !.scaffold = @ + 1]
    /\ \/ /\ fs' = scaffolded(fs)
          /\ reqs' = [reqs EXCEPT ![c].at = "exec npm install"]
       \/ /\ fs' \in {fs, mkdir(fs, PROJECT_DIR)}
          /\ reqs' = [reqs EXCEPT ![c] =
                muiCatch(@, Message("Command failed: npx create-react-app", NoPath))]
    /\ UNCHANGED <<pluginVars, compilerVars, componentName>>

\* createReactApp: await execAsync('npm install -D tailwindcss postcss autoprefixer')
MuiInstall(c) ==
    /\ pc = "mui"
    /\ reqs[c].at = "exec npm install"
    /\ ran' = [ran EXCEPT !.install = @ + 1]
    /\ \/ reqs' = [reqs EXCEPT ![c].at = "write tailwind.config.js"]
       \/ reqs' = [reqs EXCEPT ![c] = muiCatch(@, Message("Command failed: npm install", NoPath))]
    /\ UNCHANGED <<pluginVars, compilerVars, fs, componentName>>

\* the three configuration files createReactApp writes, and what follows each
configPath(at) ==
    CASE at = "write tailwind.config.js" -> tailwindConfigPath
      [] at = "write postcss.config.js" -> postcssConfigPath
      [] at = "write index.css" -> indexCSSPath

afterConfig(at) ==
    CASE at = "write tailwind.config.js" -> "write postcss.config.js"
      [] at = "write postcss.config.js" -> "write index.css"
      [] at = "write index.css" -> "update index.html"

\* createReactApp: await fs.writeFile(tailwindConfigPath | postcssConfigPath | indexCSSPath, ...)
MuiConfigure(c) ==
    /\ pc = "mui"
    /\ reqs[c].at \in {"write tailwind.config.js", "write postcss.config.js", "write index.css"}
    /\ LET path == configPath(reqs[c].at)
       IN  \/ /\ writable(fs, path)
              /\ fs' = writeFile(fs, path, [kind |-> "tailwind"])
              /\ reqs' = [reqs EXCEPT ![c].at = afterConfig(@), ![c].wrote = @ \cup {path}]
           \/ /\ fs' = fs
              /\ reqs' = [reqs EXCEPT ![c] = muiCatch(@, Message("EACCES", path))]
    /\ UNCHANGED <<pluginVars, compilerVars, ran, componentName>>

\* createReactApp: the inner try around index.html, which swallows its errors
MuiIndexHtml(c) ==
    /\ pc = "mui"
    /\ reqs[c].at = "update index.html"
    /\ \/ /\ directoryExists(fs, indexHtmlPath)
          /\ fs' = writeFile(fs, indexHtmlPath, [kind |-> "csp"])
          /\ reqs' = [reqs EXCEPT ![c].at = "ensureDirectory", ![c].wrote = @ \cup {indexHtmlPath}]
       \/ /\ fs' = fs
          /\ reqs' = [reqs EXCEPT ![c].at = "ensureDirectory"]
    /\ UNCHANGED <<pluginVars, compilerVars, ran, componentName>>

\* await ensureDirectory(COMPONENTS_DIR); then, without another await,
\* componentName, generateComponentCode and generateCSS
MuiEnsureDirectory(c) ==
    /\ pc = "mui"
    /\ reqs[c].at = "ensureDirectory"
    /\ \/ /\ fs' = IF directoryExists(fs, COMPONENTS_DIR) THEN fs ELSE mkdir(fs, COMPONENTS_DIR)
          /\ reqs' = [reqs EXCEPT ![c].at = "write component",
                                  ![c].componentName = muiComponentName(reqs[c].body.data),
                                  ![c].compiled = TRUE]
       \/ /\ ~directoryExists(fs, COMPONENTS_DIR)
          /\ fs' = fs
          /\ reqs' = [reqs EXCEPT ![c] = muiCatch(@, Message("EACCES", COMPONENTS_DIR))]
    /\ UNCHANGED <<pluginVars, compilerVars, ran, componentName>>

\* await fs.writeFile(componentPath, componentCode)
MuiWriteComponent(c) ==
    /\ pc = "mui"
    /\ reqs[c].at = "write component"
    /\ LET path == componentPath(reqs[c].componentName)
       IN  \/ /\ writable(fs, path)
              /\ fs' = writeFile(fs, path,
                          [kind |-> "jsx",
                           code |-> generateComponentCode(reqs[c].body.data).frags])
              /\ reqs' = [reqs EXCEPT ![c].at = "write css", ![c].wrote = @ \cup {path}]
           \/ /\ fs' = fs
              /\ reqs' = [reqs EXCEPT ![c] = muiCatch(@, Message("EACCES", path))]
    /\ UNCHANGED <<pluginVars, compilerVars, ran, componentName>>

\* await fs.writeFile(cssPath, cssCode); then await directoryExists(appJSPath)
MuiWriteCss(c) ==
    /\ pc = "mui"
    /\ reqs[c].at = "write css"
    /\ LET path == cssPath(reqs[c].componentName)
       IN  \/ /\ writable(fs, path)
              /\ fs' = writeFile(fs, path,
                          [kind |-> "css", code |-> generateCSS(reqs[c].componentName)])
              /\ reqs' = [reqs EXCEPT ![c].at = "access App.js", ![c].wrote = @ \cup {path}]
           \/ /\ fs' = fs
              /\ reqs' = [reqs EXCEPT ![c] = muiCatch(@, Message("EACCES", path))]
    /\ UNCHANGED <<pluginVars, compilerVars, ran, componentName>>

\* if (await directoryExists(appJSPath)) ... else ...
MuiAppChecked(c) ==
    /\ pc = "mui"
    /\ reqs[c].at = "access App.js"
    /\ reqs' = [reqs EXCEPT ![c].at =
          IF directoryExists(fs, appJSPath) THEN "write App.js" ELSE "write App.jsx"]
    /\ UNCHANGED <<pluginVars, compilerVars, fs, ran, componentName>>

\* await fs.writeFile(appJSPath | appJSXPath, appCode); res.json({ success: true, ... })
MuiWriteApp(c) ==
    /\ pc = "mui"
    /\ reqs[c].at \in {"write App.js", "write App.jsx"}
    /\ LET path == IF reqs[c].at = "write App.js" THEN appJSPath ELSE appJSXPath
       IN  \/ /\ writable(fs, path)
              /\ fs' = writeFile(fs, path, [kind |-> "app", code |-> reqs[c].componentName])
              /\ reqs' = [reqs EXCEPT ![c] =
                    respond([@ EXCEPT !.wrote = @ \cup {path}], muiSuccess(reqs[c].componentName))]
           \/ /\ fs' = fs
              /\ reqs' = [reqs EXCEPT ![c] = muiCatch(@, Message("EACCES", path))]
    /\ UNCHANGED <<pluginVars, compilerVars, ran, componentName>>

NextMui ==
    \E c \in Connections :
        \/ MuiReceive(c)
        \/ MuiProjectChecked(c)
        \/ MuiScaffold(c)
        \/ MuiInstall(c)
        \/ MuiConfigure(c)
        \/ MuiIndexHtml(c)
        \/ MuiEnsureDirectory(c)
        \/ MuiWriteComponent(c)
        \/ MuiWriteCss(c)
        \/ MuiAppChecked(c)
        \/ MuiWriteApp(c)

InitMui == InitServer("mui")
SpecMui == InitMui /\ [][NextMui]_vars

----------------------------------------------------------------------------
(* server/index.js: fonts and the /api/generate handler *)

systemFonts ==
    { <<"a", "r", "i", "a", "l">>,
      <<"h", "e", "l", "v", "e", "t", "i", "c", "a">>,
      <<"t", "i", "m", "e", "s">>,
      <<"c", "o", "u", "r", "i", "e", "r">>,
      <<"v", "e", "r", "d", "a", "n", "a">>,
      <<"g", "e", "o", "r", "g", "i", "a">>,
      <<"p", "a", "l", "a", "t", "i", "n", "o">>,
      <<"g", "a", "r", "a", "m", "o", "n", "d">>,
      <<"b", "o", "o", "k", "m", "a", "n">>,
      <<"c", "o", "m", "i", "c", " ", "s", "a", "n", "s", " ", "m", "s">>,
      <<"t", "r", "e", "b", "u", "c", "h", "e", "t", " ", "m", "s">>,
      <<"a", "r", "i", "a", "l", " ", "b", "l", "a", "c", "k">>,
      <<"i", "m", "p", "a", "c", "t">>,
      <<"s", "y", "s", "t", "e", "m">>,
      <<"m", "o", "n", "o", "s", "p", "a", "c", "e">>,
      <<"s", "e", "r", "i", "f">>,
      <<"s", "a", "n", "s", "-", "s", "e", "r", "i", "f">>,
      <<"c", "u", "r", "s", "i", "v", "e">>,
      <<"f", "a", "n", "t", "a", "s", "y">>,
      <<"-", "a", "p", "p", "l", "e", "-", "s", "y", "s", "t", "e", "m">>,
      <<"b", "l", "i", "n", "k", "m", "a", "c", "s", "y", "s", "t", "e", "m", "f", "o", "n", "t">>,
      <<"s", "e", "g", "o", "e", " ", "u", "i">>,
      <<"r", "o", "b", "o", "t", "o">>,
      <<"o", "x", "y", "g", "e", "n">>,
      <<"u", "b", "u", "n", "t", "u">>,
      <<"c", "a", "n", "t", "a", "r", "e", "l", "l">>,
      <<"f", "i", "r", "a", " ", "s", "a", "n", "s">>,
      <<"d", "r", "o", "i", "d", " ", "s", "a", "n", "s">>,
      <<"h", "e", "l", "v", "e", "t", "i", "c", "a", " ", "n", "e", "u", "e">> }

\* systemFonts.some(sysFont => fontName.toLowerCase().includes(sysFont.toLowerCase()))
isSystemFont(fontName) == \E sysFont \in systemFonts : containsCI(fontName, sysFont)

\* .split(',')[0]
RECURSIVE beforeComma(_)
beforeComma(s) ==
    IF s = <<>> \/ Head(s) = "," THEN <<>> ELSE <<Head(s)>> \o beforeComma(Tail(s))

\* String(node.fontFamily) with its quotes removed, trimmed, cut at the first
\* comma and trimmed again (the model's family names hold no whitespace but " ")
cleanFont(fontFamily) ==
    LET unquoted == SelectSeq(fontFamily, LAMBDA c : c \notin {SQ, DQ})
    IN  trimEnd(trimStart(beforeComma(trimEnd(trimStart(unquoted)))))

\* Set.prototype.add on the insertion-ordered set
add(fonts, font) ==
    IF \E i \in 1..Len(fonts) : fonts[i] = font THEN fonts ELSE Append(fonts, font)

\* traverse(node) of extractFontsFromData, over a sequence of siblings
RECURSIVE traverse(_, _)
traverse(nodes, fonts) ==
    IF nodes = <<>> THEN fonts
    ELSE LET node == Head(nodes)
             own == IF has(node, "fontFamily") /\ node.fontFamily # <<>>
                       /\ cleanFont(node.fontFamily) # <<>>
                       /\ ~isSystemFont(cleanFont(node.fontFamily))
                    THEN add(fonts, cleanFont(node.fontFamily))
                    ELSE fonts
             sub == IF has(node, "children") THEN traverse(node.children, own) ELSE own
         IN  traverse(Tail(nodes), sub)

extractFontsFromData(nodes) == traverse(nodes, <<>>)

\* fontName.replace(/\s+/g, '+')
RECURSIVE apiFontName(_)
apiFontName(fontName) ==
    IF fontName = <<>> THEN <<>>
    ELSE IF Head(fontName) = SP
         THEN <<"+">> \o apiFontName(trimStart(fontName))
         ELSE <<Head(fontName)>> \o apiFontName(Tail(fontName))

\* what one https.get of downloadFontFromGoogle can come to: a stylesheet with
\* font URLs, a response without any, an 'error' event, an exception thrown
\* by https.get inside the promise executor
LookupOutcomes == {"css", "no urls", "error", "throws"}

\* mutant of downloadFontFromGoogle: a failed lookup resolves with empty css
downloadFontOrNothing(fontName, outcome) ==
    IF outcome = "css"
    THEN [kind |-> "font-face", family |-> apiFontName(fontName)]
    ELSE [kind |-> "", family |-> <<>>]

\* the css downloadFontFromGoogle resolves with
downloadFontFromGoogle(fontName, outcome) ==
    IF outcome = "css"
    THEN [kind |-> "font-face", family |-> apiFontName(fontName)]
    ELSE [kind |-> "@import", family |-> apiFontName(fontName)]

fInter == <<"I", "n", "t", "e", "r">>
fOpenSansStack == <<"'", "O", "p", "e", "n", " ", "S", "a", "n", "s", "'", ",", " ", "A", "r", "i", "a", "l">>
fOpenSans == <<"O", "p", "e", "n", " ", "S", "a", "n", "s">>
fArial == <<"A", "r", "i", "a", "l">>

withFont(node, fontFamily) == node @@ [fontFamily |-> fontFamily]

\* the record without one of its properties
without(node, field) == [f \in DOMAIN node \ {field} |-> node[f]]

ApiPayloads ==
    { <<>>,
      <<Frame(nBox, "true", "undefined", "", "")>>,
      <<withChildren(Frame(nCard, "true", "undefined", "", ""),
                     <<withFont(Text(nLabel, "true", tHi, ""), fInter)>>)>>,
      <<withChildren(Frame(nBox, "true", "undefined", "", ""),
                     <<withFont(Text(nLabel, "true", tHi, ""), fOpenSansStack),
                       withFont(Text(nLabel, "true", tGo, ""), fInter),
                       withFont(Text(nLabel, "true", tGo, ""), fArial)>>)>>,
      <<without(withFont(Text(nLabel, "true", tHi, ""), fInter), "children")>> }

ApiBodies == {NoBody} \cup { [hasData |-> TRUE, data |-> d] : d \in ApiPayloads }

\* index.js: res.status(500).json({ error: e.message })
apiError(message) == [status |-> 500, body |-> [error |-> message]]

\* index.js: res.json({ success: true, fonts: fonts })
apiSuccess(fonts) == [status |-> 200, body |-> [success |-> TRUE, fonts |-> fonts]]

\* the catch block of the /api/generate handler, entered from position at
apiCatch(req, message) == [respond(req, apiError(message)) EXCEPT !.threw = req.at]

\* const code = generateComponent(data, componentName, fontCSS), which reads
\* root.children.map and throws when the root has no children property
apiGenerate(req) ==
    IF ~has(req.body.data[1], "children")
    THEN [apiCatch(req, Message("TypeError", NoPath)) EXCEPT !.threw = "generateComponent"]
    ELSE [req EXCEPT !.at = "write component", !.compiled = TRUE]

\* POST /api/generate arrives while no request is being served:
\* const data = req.body; await ensureDirectory(COMPONENT_DIR)
ApiReceive(c) ==
    /\ pc = "api"
    /\ \A d \in Connections : idle(d)
    /\ ran.received < MaxRequests
    /\ \E body \in ApiBodies :
          reqs' = [reqs EXCEPT ![c] = [NoRequest EXCEPT !.body = body, !.at = "ensureDirectory"]]
    /\ ran' = [ran EXCEPT !.received = @ + 1]
    /\ UNCHANGED <<pluginVars, compilerVars, fs, componentName>>

\* ensureDirectory(COMPONENT_DIR) settles; then, without another await,
\* componentName, extractFontsFromData and, when there are no fonts,
\* generateComponent
ApiEnsureDirectory(c) ==
    /\ pc = "api"
    /\ reqs[c].at = "ensureDirectory"
    /\ \/ /\ fs' = IF directoryExists(fs, COMPONENTS_DIR) THEN fs ELSE mkdir(fs, COMPONENTS_DIR)
          /\ reqs' = [reqs EXCEPT ![c] =
                IF apiComponentNameThrows(reqs[c].body.data)
                THEN [apiCatch(@, Message("TypeError", NoPath)) EXCEPT !.threw = "componentName"]
                ELSE LET named == [reqs[c] EXCEPT
                                      !.componentName = apiComponentName(reqs[c].body.data),
                                      !.fonts = extractFontsFromData(reqs[c].body.data)]
                     IN  IF Len(named.fonts) > 0
                         THEN [named EXCEPT !.at = "ensure FONTS_DIR"]
                         ELSE apiGenerate(named)]
       \/ /\ ~directoryExists(fs, COMPONENTS_DIR)
          /\ fs' = fs
          /\ reqs' = [reqs EXCEPT ![c] = apiCatch(@, Message("EACCES", COMPONENTS_DIR))]
    /\ UNCHANGED <<pluginVars, compilerVars, ran, componentName>>

\* generateFontCSS: await ensureDirectory(FONTS_DIR); its rejection is caught
\* by the handler's inner try and the request goes on with fontCSS = ''
ApiEnsureFontsDir(c) ==
    /\ pc = "api"
    /\ reqs[c].at = "ensure FONTS_DIR"
    /\ \/ /\ fs' = IF directoryExists(fs, FONTS_DIR) THEN fs ELSE mkdir(fs, FONTS_DIR)
          /\ reqs' = [reqs EXCEPT ![c].at = "font lookups"]
       \/ /\ ~directoryExists(fs, FONTS_DIR)
          /\ fs' = fs
          /\ reqs' = [reqs EXCEPT ![c] = apiGenerate([@ EXCEPT !.fontThrew = TRUE])]
    /\ UNCHANGED <<pluginVars, compilerVars, ran, componentName>>

\* generateFontCSS: await Promise.all(fonts.map(downloadFontFromGoogle)), then
\* the join of the results; a rejected lookup rejects generateFontCSS
ApiFontsLookedUp(c) ==
    /\ pc = "api"
    /\ reqs[c].at = "font lookups"
    /\ \E outcome \in [1..Len(reqs[c].fonts) -> LookupOutcomes] :
          reqs' = [reqs EXCEPT ![c] =
              IF \E i \in DOMAIN outcome : outcome[i] = "throws"
              THEN apiGenerate([@ EXCEPT !.lookups = outcome, !.fontThrew = TRUE])
              ELSE apiGenerate([@ EXCEPT
                      !.lookups = outcome,
                      !.fontCSS = [i \in DOMAIN outcome |->
                                      downloadFontFromGoogle(reqs[c].fonts[i], outcome[i])],
                      !.fontCSSReturned = TRUE])]
    /\ UNCHANGED <<pluginVars, compilerVars, fs, ran, componentName>>

\* await fs.writeFile(path.join(COMPONENT_DIR, `${componentName}.jsx`), code)
ApiWriteComponent(c) ==
    /\ pc = "api"
    /\ reqs[c].at = "write component"
    /\ LET path == componentPath(reqs[c].componentName)
       IN  \/ /\ writable(fs, path)
              /\ fs' = writeFile(fs, path,
                          [kind |-> "jsx", code |-> generateComponent(reqs[c].body.data).frags])
              /\ reqs' = [reqs EXCEPT ![c].at = "write css", ![c].wrote = @ \cup {path}]
           \/ /\ fs' = fs
              /\ reqs' = [reqs EXCEPT ![c] = apiCatch(@, Message("EACCES", path))]
    /\ UNCHANGED <<pluginVars, compilerVars, ran, componentName>>

\* await fs.writeFile(path.join(COMPONENT_DIR, `${componentName}.css`), css)
ApiWriteCss(c) ==
    /\ pc = "api"
    /\ reqs[c].at = "write css"
    /\ LET path == cssPath(reqs[c].componentName)
       IN  \/ /\ writable(fs, path)
              /\ fs' = writeFile(fs, path, [kind |-> "css", code |-> reqs[c].fontCSS])
              /\ reqs' = [reqs EXCEPT ![c].at = "write App.js", ![c].wrote = @ \cup {path}]
           \/ /\ fs' = fs
              /\ reqs' = [reqs EXCEPT ![c] = apiCatch(@, Message("EACCES", path))]
    /\ UNCHANGED <<pluginVars, compilerVars, ran, componentName>>

\* await fs.writeFile(path.join(__dirname, '../react-app/src/App.js'), appjs);
\* res.json({ success: true, fonts })
ApiWriteApp(c) ==
    /\ pc = "api"
    /\ reqs[c].at = "write App.js"
    /\ \/ /\ writable(fs, appJSPath)
          /\ fs' = writeFile(fs, appJSPath, [kind |-> "app", code |-> reqs[c].componentName])
          /\ reqs' = [reqs EXCEPT ![c] =
                respond([@ EXCEPT !.wrote = @ \cup {appJSPath}], apiSuccess(reqs[c].fonts))]
       \/ /\ fs' = fs
          /\ reqs' = [reqs EXCEPT ![c] = apiCatch(@, Message("EACCES", appJSPath))]
    /\ UNCHANGED <<pluginVars, compilerVars, ran, componentName>>

NextApi ==
    \E c \in Connections :
        \/ ApiReceive(c)
        \/ ApiEnsureDirectory(c)
        \/ ApiEnsureFontsDir(c)
        \/ ApiFontsLookedUp(c)
        \/ ApiWriteComponent(c)
        \/ ApiWriteCss(c)
        \/ ApiWriteApp(c)

InitApi == InitServer("api")
SpecApi == InitApi /\ [][NextApi]_vars

\* either server, serving requests one after the other
InitServers == InitMui \/ InitApi
NextServers == NextMui \/ NextApi
SpecServers == InitServers /\ [][NextServers]_vars

----------------------------------------------------------------------------
(* Claims about the handlers *)

sent(c) == reqs[c].responses

\* the positions of createReactApp that can throw, and of the output writes
ProvisioningSteps ==
    {"exec create-react-app", "exec npm install", "write tailwind.config.js",
     "write postcss.config.js", "write index.css"}

WriteSteps == {"write component", "write css", "write App.js", "write App.jsx"}

isSuccess(response) ==
    /\ response.status = 200
    /\ has(response.body, "success")
    /\ response.body.success

isErrorResult(response) ==
    /\ response.status >= 400
    /\ has(response.body, "error")
    /\ has(response.body, "success") => ~response.body.success

\* the component, stylesheet and App files of a request
outputsOf(req) ==
    {componentPath(req.componentName), cssPath(req.componentName), appJSPath, appJSXPath}

isOutput(path) == path.dir = COMPONENTS_DIR.dir \/ path \in {appJSPath, appJSXPath}

emptyInput(req) == ~req.body.hasData \/ req.body.data = <<>>

\* C14 (empty input): a generate request whose data is [] or missing is
\* answered with an error, the compiler is not run for it and it writes no
\* component, stylesheet or App file.
C14_EmptyInput ==
    \A c \in DOMAIN reqs :
        (reqs[c].at # "idle" /\ emptyInput(reqs[c])) =>
            /\ ~reqs[c].compiled
            /\ \A path \in reqs[c].wrote : ~isOutput(path)
            /\ reqs[c].at = "done" =>
                  /\ Len(sent(c)) = 1
                  /\ isErrorResult(sent(c)[1])

\* createReactApp finds the project directory: it returns without a command
\* and without a write
provisioningSkipped(c) ==
    (reqs[c].at = "access PROJECT_DIR" /\ PROJECT_DIR \in fs.dirs /\ reqs'[c] # reqs[c]) =>
        /\ reqs'[c].at = "ensureDirectory"
        /\ reqs'[c].wrote = reqs[c].wrote
        /\ fs' = fs
        /\ ran' = ran

\* C17 as claimed (provisioning idempotence): createReactApp called when the
\* project directory exists runs no scaffold command and writes no file, so
\* over any sequence of sequential requests the scaffold command runs at most once.
C17_ScaffoldAtMostOnce ==
    /\ [][\A c \in DOMAIN reqs : provisioningSkipped(c)]_vars
    /\ [](ran.scaffold <= 1)

\* C17 as amended (provisioning idempotence): createReactApp called when the
\* project directory exists runs no scaffold command and writes no file, so
\* over any sequence of sequential requests the scaffold command never runs
\* while the project directory exists.
C17_NoScaffoldOnceProjectExists ==
    [][/\ \A c \in DOMAIN reqs : provisioningSkipped(c)
       /\ ran'.scaffold > ran.scaffold => PROJECT_DIR \notin fs.dirs]_vars

\* the second of two requests has skipped provisioning after the first scaffolded
C17_Witness ==
    /\ pc = "mui"
    /\ ran.received = 2
    /\ ran.scaffold = 1
    /\ reqs[1].at = "ensureDirectory"
    /\ reqs[1].wrote = {}

\* what a caller can branch on: the status and the fields of the body other
\* than the text of error.message
kind(response) ==
    [status |-> response.status,
     fields |-> DOMAIN response.body,
     success |-> IF has(response.body, "success")
                 THEN (IF response.body.success THEN "true" ELSE "false")
                 ELSE "undefined"]

\* the kinds of the responses to an input error and to a failed output write
otherErrorKinds ==
    {kind(muiNoData)}
    \cup { kind(muiError(Message("EACCES", path))) :
              path \in {componentPath(DEFAULT_COMPONENT_NAME),
                        cssPath(DEFAULT_COMPONENT_NAME), appJSPath, appJSXPath} }

\* C18 (provisioning failure kind): when createReactApp fails, the response of
\* /generate-component has an error kind that differs from the kind of an
\* input error and from the kind of an output write failure.
C18_ProvisioningFailureKind ==
    \A c \in DOMAIN reqs :
        (pc = "mui" /\ reqs[c].at = "done" /\ reqs[c].threw \in ProvisioningSteps) =>
            kind(sent(c)[1]) \notin otherErrorKinds

\* C19 (write ordering): a request has at most one response and exactly one
\* when its handler is done; a success response comes only after the component,
\* stylesheet and App files are written; a failed write gives an error result
\* and no success response.
C19_WriteOrdering ==
    \A c \in DOMAIN reqs :
        /\ Len(sent(c)) <= 1
        /\ reqs[c].at = "done" <=> Len(sent(c)) = 1
        /\ \A i \in 1..Len(sent(c)) :
              /\ isSuccess(sent(c)[i]) =>
                    /\ componentPath(reqs[c].componentName) \in reqs[c].wrote
                    /\ cssPath(reqs[c].componentName) \in reqs[c].wrote
                    /\ reqs[c].wrote \cap {appJSPath, appJSXPath} # {}
                    /\ reqs[c].wrote \subseteq DOMAIN fs.files
                    /\ reqs[c].threw = ""
              /\ reqs[c].threw \in WriteSteps =>
                    /\ isErrorResult(sent(c)[i])
                    /\ ~isSuccess(sent(c)[i])

\* a request whose stylesheet write failed after its component was written
C19_Witness ==
    /\ reqs[1].at = "done"
    /\ reqs[1].threw = "write css"
    /\ componentPath(reqs[1].componentName) \in reqs[1].wrote
    /\ Len(sent(1)) = 1

lookupFailed(outcome) == outcome \in {"error", "no urls"}

----------------------------------------------------------------------------
(* Typography and paint: the plugin's convertFontWeight and the compilers' *)
(* style resolution                                                        *)

digitValue(c) ==
    CASE c = "0" -> 0 [] c = "1" -> 1 [] c = "2" -> 2 [] c = "3" -> 3 [] c = "4" -> 4
      [] c = "5" -> 5 [] c = "6" -> 6 [] c = "7" -> 7 [] c = "8" -> 8 [] c = "9" -> 9

\* the value of the longest run of digits s starts with, continuing from acc
RECURSIVE digitRun(_, _)
digitRun(s, acc) ==
    IF s = <<>> \/ Head(s) \notin DigitChars THEN acc
    ELSE digitRun(Tail(s), acc * 10 + digitValue(Head(s)))

\* parseFloat(s) on strings without sign, point or exponent: leading
\* whitespace is skipped, then the leading digits are read; NaN is None
parseFloat(s) ==
    LET t == trimStart(s)
    IN  IF t = <<>> \/ Head(t) \notin DigitChars THEN None ELSE Some(digitRun(t, 0))
\* the numeric keywords '100' ... '900'
hundred(digit) == <<digit, "0", "0">>

stThin == <<"t", "h", "i", "n">>
stExtralight == <<"e", "x", "t", "r", "a", "l", "i", "g", "h", "t">>
stUltralight == <<"u", "l", "t", "r", "a", "l", "i", "g", "h", "t">>
stLight == <<"l", "i", "g", "h", "t">>
stRegular == <<"r", "e", "g", "u", "l", "a", "r">>
stNormal == <<"n", "o", "r", "m", "a", "l">>
stMedium == <<"m", "e", "d", "i", "u", "m">>
stSemibold == <<"s", "e", "m", "i", "b", "o", "l", "d">>
stDemi == <<"d", "e", "m", "i">>
stBold == <<"b", "o", "l", "d">>
stExtrabold == <<"e", "x", "t", "r", "a", "b", "o", "l", "d">>
stUltrabold == <<"u", "l", "t", "r", "a", "b", "o", "l", "d">>
stBlack == <<"b", "l", "a", "c", "k">>
stHeavy == <<"h", "e", "a", "v", "y">>

\* part_001 l.434-456
convertFontWeight(style) ==
    LET styleLower == toLowerCase(style)
        numeric == parseFloat(style)
    IN  IF style = <<>> THEN 400
        ELSE IF numeric # None THEN numeric[1]
        ELSE IF includes(styleLower, stThin) \/ includes(styleLower, hundred("1")) THEN 100
        ELSE IF includes(styleLower, stExtralight) \/ includes(styleLower, stUltralight)
                \/ includes(styleLower, hundred("2")) THEN 200
        ELSE IF includes(styleLower, stLight) \/ includes(styleLower, hundred("3")) THEN 300
        ELSE IF includes(styleLower, stRegular) \/ includes(styleLower, stNormal)
                \/ includes(styleLower, hundred("4")) THEN 400
        ELSE IF includes(styleLower, stMedium) \/ includes(styleLower, hundred("5")) THEN 500
        ELSE IF includes(styleLower, stSemibold) \/ includes(styleLower, stDemi)
                \/ includes(styleLower, hundred("6")) THEN 600
        ELSE IF includes(styleLower, stBold) \/ includes(styleLower, hundred("7")) THEN 700
        ELSE IF includes(styleLower, stExtrabold) \/ includes(styleLower, stUltrabold)
                \/ includes(styleLower, hundred("8")) THEN 800
        ELSE IF includes(styleLower, stBlack) \/ includes(styleLower, stHeavy)
                \/ includes(styleLower, hundred("9")) THEN 900
        ELSE 400

StylePrefixes == {<<>>, <<"E", "x", "t", "r", "a">>, <<"U", "l", "t", "r", "a">>, <<"S", "e", "m", "i">>, <<"D", "e", "m", "i">>}
StyleBases == {<<>>, <<"T", "h", "i", "n">>, <<"L", "i", "g", "h", "t">>, <<"R", "e", "g", "u", "l", "a", "r">>, <<"N", "o", "r", "m", "a", "l">>, <<"M", "e", "d", "i", "u", "m">>, <<"B", "o", "l", "d">>, <<"B", "l", "a", "c", "k">>, <<"H", "e", "a", "v", "y">>}
StyleSuffixes == {<<>>, <<" ", "I", "t", "a", "l", "i", "c">>}
NumericStyles == {<<"1", "0", "0">>, <<"4", "0", "0">>, <<"7", "0", "0">>, <<"9", "5", "0">>}

\* the font style names a run draws from: the vocabulary, its compounds, their
\* italics, numeric styles, an unknown name
FontStyles ==
    { p \o b \o x : p \in StylePrefixes, b \in StyleBases, x \in StyleSuffixes }
    \cup NumericStyles \cup {<<"B", "o", "o", "k">>}

InitWeight ==
    /\ pc = "weight"
    /\ text \in FontStyles
    /\ data = <<>>
    /\ jsx = NotRun
    /\ elem = NotRunElem
    /\ log = <<>>
    /\ escaped = NoEscaped
    /\ widget = ""
    /\ IdleServer

\* extractTextProperties: fontWeight = convertFontWeight(node.fontName.style)
ConvertFontWeight ==
    /\ pc = "weight"
    /\ ~result.done
    /\ result' = [done |-> TRUE, value |-> convertFontWeight(text)]
    /\ UNCHANGED <<pc, data, jsx, elem, log, text, escaped, widget, serverVars, pluginVars>>

NextWeight == ConvertFontWeight
SpecWeight == InitWeight /\ [][NextWeight]_vars

\* the vocabulary as the claim lists it: entry name |-> weight
Vocabulary ==
    { <<<<"T", "h", "i", "n">>, 100>>, <<<<"E", "x", "t", "r", "a", "L", "i", "g", "h", "t">>, 200>>, <<<<"U", "l", "t", "r", "a", "L", "i", "g", "h", "t">>, 200>>, <<<<"L", "i", "g", "h", "t">>, 300>>, <<<<"R", "e", "g", "u", "l", "a", "r">>, 400>>, <<<<"N", "o", "r", "m", "a", "l">>, 400>>,
      <<<<"M", "e", "d", "i", "u", "m">>, 500>>, <<<<"S", "e", "m", "i", "B", "o", "l", "d">>, 600>>, <<<<"D", "e", "m", "i">>, 600>>, <<<<"B", "o", "l", "d">>, 700>>, <<<<"E", "x", "t", "r", "a", "B", "o", "l", "d">>, 800>>, <<<<"U", "l", "t", "r", "a", "B", "o", "l", "d">>, 800>>,
      <<<<"B", "l", "a", "c", "k">>, 900>>, <<<<"H", "e", "a", "v", "y">>, 900>> }

namesNoEntry(style) ==
    \A e \in Vocabulary : ~includes(toLowerCase(style), toLowerCase(e[1]))

\* C24 (font-weight vocabulary): convertFontWeight gives a numeric style its
\* number, a style that is a vocabulary entry the weight of that entry, and
\* 400 to an empty style and to a style that names no entry.
C24_FontWeightVocabulary ==
    result.done =>
        /\ parseFloat(text) # None => result.value = parseFloat(text)[1]
        /\ \A e \in Vocabulary : text = e[1] => result.value = e[2]
        /\ (parseFloat(text) = None /\ namesNoEntry(text)) => result.value = 400

----------------------------------------------------------------------------
(* The compilers' style resolution for one node *)

\* node.fontWeight as the payload carries it: a number or a string
numberWeight(n) == [type |-> "number", number |-> n, string |-> <<>>]
stringWeight(s) == [type |-> "string", number |-> 0, string |-> s]

\* a paint of node.fills; a gradient has no color
solid(color) == [type |-> "SOLID", color |-> color]
gradient == [type |-> "GRADIENT_LINEAR", color |-> ""]

\* rgbToColor(fill.color, fill.opacity): the css colour of a paint's colour
rgbToColor(color) == <<"rgb", color>>

withField(node, field, value) == node @@ (field :> value)

\* server/index.js l.236-242: styles.fontWeight of a TEXT node
commonStylesFontWeight(node) ==
    IF has(node, "fontWeight") /\ (node.fontWeight.type = "string" => node.fontWeight.string # <<>>)
                               /\ (node.fontWeight.type = "number" => node.fontWeight.number # 0)
    THEN IF node.fontWeight.type = "string"
         THEN (IF parseFloat(node.fontWeight.string) = None
                  \/ parseFloat(node.fontWeight.string) = Some(0)
               THEN 400
               ELSE parseFloat(node.fontWeight.string)[1])
         ELSE node.fontWeight.number
    ELSE 400

\* part_003 l.436: textStyles.fontWeight, None when the entry is not set
textStylesFontWeight(node) ==
    IF has(node, "fontWeight") /\ (node.fontWeight.type = "string" => node.fontWeight.string # <<>>)
                               /\ (node.fontWeight.type = "number" => node.fontWeight.number # 0)
    THEN Some(IF node.fontWeight.type = "number" THEN node.fontWeight.number ELSE 400)
    ELSE None

\* part_003 l.165-177: the backgroundColor of getBackgroundStyle(fills), None when {}
getBackgroundStyle(fills) ==
    IF fills = <<>> THEN None
    ELSE IF fills[1].type = "SOLID" /\ truthy(fills[1].color) THEN Some(rgbToColor(fills[1].color))
    ELSE None

fillsOf(node) == IF has(node, "fills") THEN node.fills ELSE <<>>

\* part_003 l.283 (part_004 l.165 without the Button test): styles.backgroundColor
muiBackgroundColor(node) ==
    LET hasSVG == truthy(node.svg) \/ truthy(node.svgBase64)
        shouldUseSVG == hasSVG /\ node.type # "TEXT"
    IN  IF (hasSVG /\ shouldUseSVG) \/ node.type = "TEXT" \/ detectComponentType(node) = "Button"
        THEN None
        ELSE getBackgroundStyle(fillsOf(node))

\* part_003 l.439-442: textStyles.color of a text leaf
muiTextColor(node) ==
    IF fillsOf(node) # <<>> /\ truthy(fillsOf(node)[1].color)
    THEN Some(rgbToColor(fillsOf(node)[1].color))
    ELSE None

\* server/index.js l.173-185: styles.color and styles.backgroundColor
apiFillStyles(node) ==
    LET fills == fillsOf(node)
        isSolid == fills # <<>> /\ fills[1].type = "SOLID"
    IN  [color |-> IF isSolid /\ node.type = "TEXT" THEN Some(rgbToColor(fills[1].color)) ELSE None,
         backgroundColor |->
             IF isSolid /\ node.type # "TEXT" /\ ~truthy(node.image) /\ ~truthy(node.svg)
                /\ ~truthy(node.svgBase64)
             THEN Some(rgbToColor(fills[1].color)) ELSE None]

\* what generateNodeComponent makes of the node: "text", "svg", "img" or ""
muiLeaf(node) ==
    IF node.type = "TEXT" /\ node.textContent # <<>> THEN "text" ELSE assetContent(node)

\* what generateElement makes of the node
apiLeaf(node) ==
    IF node.type = "TEXT" THEN "text"
    ELSE IF truthy(node.svg) THEN "svg"
    ELSE IF truthy(node.svgBase64) \/ truthy(node.image) THEN "img"
    ELSE ""

\* the style entries of a node that the claims are about, from both compilers
resolveStyles(node) ==
    [mui |-> [leaf |-> muiLeaf(node),
              backgroundColor |-> muiBackgroundColor(node),
              color |-> IF muiLeaf(node) = "text" THEN muiTextColor(node) ELSE None,
              fontWeight |-> IF muiLeaf(node) = "text" THEN textStylesFontWeight(node) ELSE None],
     api |-> [leaf |-> apiLeaf(node),
              backgroundColor |-> apiFillStyles(node).backgroundColor,
              color |-> apiFillStyles(node).color,
              fontWeight |-> IF node.type = "TEXT" THEN Some(commonStylesFontWeight(node)) ELSE None]]

FontWeights ==
    {numberWeight(700), stringWeight(<<"B", "o", "l", "d">>), stringWeight(<<"7", "0", "0">>), stringWeight(<<"R", "e", "g", "u", "l", "a", "r">>)}

FillLists == {<<>>, <<solid("red")>>, <<gradient, solid("blue")>>}

StyleBaseNodes ==
    { Text(nLabel, "true", tHi, "") }
    \cup { Node(nBox, t, Some(0), Some(0), "true", "undefined", <<>>, s, "", i, <<>>) :
              t \in {"FRAME", "RECTANGLE"}, s \in {"", "markup"}, i \in {"", "datauri"} }

StyleNodes ==
    { withField(n, "fills", f) : n \in StyleBaseNodes, f \in FillLists }
    \cup { withField(withField(n, "fills", f), "fontWeight", w) :
              n \in StyleBaseNodes, f \in FillLists, w \in FontWeights }

InitStyle ==
    /\ pc = "style"
    /\ data \in { <<n>> : n \in StyleNodes }
    /\ jsx = NotRun
    /\ elem = NotRunElem
    /\ log = <<>>
    /\ text = <<>>
    /\ escaped = NoEscaped
    /\ widget = ""
    /\ IdleServer

\* the styles object of generateNodeComponent and of getCommonStyles for data[0]
ResolveStyles ==
    /\ pc = "style"
    /\ ~result.done
    /\ result' = [done |-> TRUE, value |-> resolveStyles(data[1])]
    /\ UNCHANGED <<pc, data, jsx, elem, log, text, escaped, widget, serverVars, pluginVars>>

NextStyle == ResolveStyles
SpecStyle == InitStyle /\ [][NextStyle]_vars

isTextNode(node) == node.type = "TEXT"

\* the weight a string weight names: its number, or its vocabulary entry
namedWeight(s) ==
    IF parseFloat(s) # None THEN parseFloat(s)[1]
    ELSE IF \E e \in Vocabulary : e[1] = s THEN (CHOOSE e \in Vocabulary : e[1] = s)[2]
    ELSE 400

\* C21 (scenario font weight): a text leaf whose fontWeight is a string is
\* emitted by both compilers with the weight that string names, "Bold" with
\* 700, and not with 400 in its place.
C21_StringFontWeight ==
    result.done =>
        \A compiler \in {"mui", "api"} :
            (isTextNode(data[1]) /\ has(data[1], "fontWeight")
                /\ data[1].fontWeight.type = "string") =>
                result.value[compiler].fontWeight = Some(namedWeight(data[1].fontWeight.string))

\* the first solid paint of a node's fills, None when there is none
firstSolid(fills) ==
    LET solids == SelectSeq(fills, LAMBDA p : p.type = "SOLID")
    IN  IF solids = <<>> THEN None ELSE Some(rgbToColor(solids[1].color))

\* C23 (background suppression): a node emitted as a text leaf or as an asset
\* leaf has no backgroundColor, and a text leaf carries its first solid fill
\* as its colour.
C23_BackgroundSuppression ==
    result.done =>
        \A compiler \in {"mui", "api"} :
            LET styles == result.value[compiler]
            IN  /\ styles.leaf \in {"text", "svg", "img"} => styles.backgroundColor = None
                /\ styles.leaf = "text" => styles.color = firstSolid(fillsOf(data[1]))

----------------------------------------------------------------------------
(* Vector markup embedded in a template literal *)

\* the backtick character, by name
BT == "backtick"
DOLLAR == "$"
Whitespace == {SP, LF, CR, TAB}

\* String.prototype.replace(/\s+/g, ' ')
RECURSIVE collapseWhitespace(_)
collapseWhitespace(s) ==
    IF s = <<>> THEN <<>>
    ELSE IF Head(s) \in Whitespace
         THEN IF Tail(s) # <<>> /\ Head(Tail(s)) \in Whitespace
              THEN collapseWhitespace(Tail(s))
              ELSE <<SP>> \o collapseWhitespace(Tail(s))
         ELSE <<Head(s)>> \o collapseWhitespace(Tail(s))

\* mutant of escapedSvg: the backslashes are not doubled
escapedSvgKeepingBackslashes(svgContent) ==
    trimEnd(trimStart(collapseWhitespace(
        replaceAll(replaceAll(replaceAll(svgContent,
            BT, <<BS, BT>>), DOLLAR, <<BS, DOLLAR>>), LF, <<SP>>))))

\* part_003 l.480: the chain of replace calls and the final trim (after the
\* collapse the only whitespace left to trim is " ")
escapedSvg(svgContent) ==
    trimEnd(trimStart(collapseWhitespace(
        replaceAll(replaceAll(replaceAll(replaceAll(svgContent,
            BS, <<BS, BS>>), BT, <<BS, BT>>), DOLLAR, <<BS, DOLLAR>>), LF, <<SP>>))))

SvgAlphabet == {BS, BT, DOLLAR, LF, TAB, SP, "a"}

InitSvg ==
    /\ pc = "svg"
    /\ text \in strings(SvgAlphabet, MaxTextLen) \ {<<>>}
    /\ data = <<>>
    /\ jsx = NotRun
    /\ elem = NotRunElem
    /\ log = <<>>
    /\ escaped = NoEscaped
    /\ widget = ""
    /\ IdleServer

\* if (svgContent && !svgContent.startsWith('data:')) { const escapedSvg = ... }
EscapeSvg ==
    /\ pc = "svg"
    /\ ~result.done
    /\ result' = [done |-> TRUE, value |-> escapedSvg(text)]
    /\ UNCHANGED <<pc, data, jsx, elem, log, text, escaped, widget, serverVars, pluginVars>>

NextSvg == EscapeSvg
SpecSvg == InitSvg /\ [][NextSvg]_vars

\* the number of backslashes right before position i of s
RECURSIVE backslashesBefore(_, _)
backslashesBefore(s, i) ==
    IF i > 1 /\ s[i - 1] = BS THEN 1 + backslashesBefore(s, i - 1) ELSE 0

count(s, chars) == Len(SelectSeq(s, LAMBDA c : c \in chars))

\* C25 (vector escaping): in the embedded text every backtick and every '$'
\* follows an odd number of backslashes, every backslash of the payload is
\* doubled, and there is no newline and no run of two whitespace characters.
C25_VectorEscaping ==
    result.done =>
        LET out == result.value
        IN  /\ \A i \in 1..Len(out) :
                  out[i] \in {BT, DOLLAR} => backslashesBefore(out, i) % 2 = 1
            /\ count(out, {BS}) = 2 * count(text, {BS}) + count(text, {BT, DOLLAR})
            /\ count(out, {BT, DOLLAR}) = count(text, {BT, DOLLAR})
            /\ \A i \in 1..Len(out) : out[i] \notin {LF, CR, TAB}
            /\ \A i \in 1..(Len(out) - 1) : ~(out[i] \in Whitespace /\ out[i + 1] \in Whitespace)

\* a payload with a backslash before a backtick and a trailing newline, escaped
C25_Witness ==
    /\ result.done
    /\ text = <<BS, BT, LF>>
    /\ result.value = <<BS, BS, BS, BT>>

----------------------------------------------------------------------------
(* Positioning mode *)

\* boxes away from the origin, of every layoutMode the plugin sends or omits
LayoutShapes ==
    { Box(x, Some(20), l) : x \in {Some(10), Some(30)},
                            l \in {"undefined", "NONE", "HORIZONTAL"} }

InitLayout == InitPayload(payloads(LayoutShapes))
SpecLayout == InitLayout /\ [][NextTree]_vars

\* the origin a child was compiled with, read off its emitted offsets
originOf(child, frag) == <<child.x[1] - frag.left[1], child.y[1] - frag.top[1]>>

\* C26 (positioning mode consistency): below the root, the children of a node
\* are compiled with origin (0,0) exactly when the node itself is emitted as a
\* flex container (display 'flex', no left/top), for every layoutMode.
C26_PositioningModeConsistency ==
    jsx.done =>
        \A f \in elems(jsx.frags) : \A g \in elems(jsx.frags) :
            (/\ Len(f.src) > 1
             /\ Len(g.src) = Len(f.src) + 1
             /\ isPrefix(f.src, g.src)
             /\ g.left # None) =>
                (originOf(srcNode(g), g) = <<0, 0>>
                    <=> (f.display = "flex" /\ f.left = None /\ f.top = None))

----------------------------------------------------------------------------
(* The plugin's extraction of one scene node (part_001 extractNodeData) *)

\* a scene node with the answers its exportAsync calls will give; only
\* containers and boolean operations have a children property
Leaf(type, exportSvg, exportPng) ==
    [name |-> nBox, type |-> type, exportSvg |-> exportSvg, exportPng |-> exportPng]

Parent(type, exportSvg, kids) ==
    [name |-> nBox, type |-> type, exportSvg |-> exportSvg, exportPng |-> "fails",
     children |-> kids]

vectorTypes ==
    {"VECTOR", "ELLIPSE", "RECTANGLE", "POLYGON", "STAR", "LINE", "BOOLEAN_OPERATION"}

containerTypes == {"FRAME", "COMPONENT", "INSTANCE", "GROUP"}

RECURSIVE hasTextDescendant(_)
hasTextDescendant(node) ==
    IF node.type = "TEXT" THEN TRUE
    ELSE IF has(node, "children")
         THEN \E i \in 1..Len(node.children) : hasTextDescendant(node.children[i])
         ELSE FALSE

shouldExportSVG(node) ==
    IF node.type \in vectorTypes THEN TRUE
    ELSE IF node.type \in containerTypes THEN ~hasTextDescendant(node)
    ELSE FALSE

\* mutant of extractsChildren: the children are extracted whatever was exported
extractsChildrenAlways(node) == has(node, "children")

\* part_001 l.698: !shouldExportSVG && 'children' in node && Array.isArray(node.children)
extractsChildren(node) == ~shouldExportSVG(node) /\ has(node, "children")

\* part_001 l.662-693: the payload fields the two export blocks add to baseData
exported(node) ==
    LET svgFields ==
            IF shouldExportSVG(node) /\ node.exportSvg = "ok"
            THEN [svg |-> "markup", svgBase64 |-> "b64svg"]
            ELSE <<>>
        fallback ==
            IF shouldExportSVG(node) /\ node.exportSvg = "fails"
               /\ node.type \in vectorTypes /\ node.exportPng = "ok"
            THEN [image |-> "datauri"]
            ELSE <<>>
        png ==
            IF node.type \in {"RECTANGLE", "ELLIPSE"} /\ svgFields = <<>> /\ node.exportPng = "ok"
            THEN [image |-> "datauri"]
            ELSE <<>>
    IN  svgFields @@ png @@ fallback

RECURSIVE extractNodeData(_)
extractNodeData(node) ==
    LET baseData == [name |-> node.name, type |-> node.type] @@ exported(node)
    IN  IF extractsChildren(node)
        THEN baseData @@ [children |-> [i \in 1..Len(node.children) |->
                                           extractNodeData(node.children[i])]]
        ELSE baseData

SceneLeaves ==
    { Leaf("TEXT", "fails", "fails") }
    \cup { Leaf("RECTANGLE", s, p) : s \in {"ok", "fails"}, p \in {"ok", "fails"} }
    \cup { Leaf("VECTOR", "fails", p) : p \in {"ok", "fails"} }

SceneParents == { <<t, s>> : t \in {"FRAME", "BOOLEAN_OPERATION"}, s \in {"ok", "fails"} }

\* every scene tree of n nodes, every sequence of scene trees of n nodes in all
RECURSIVE sceneTrees(_)
RECURSIVE sceneForest(_)
sceneTrees(n) ==
    (IF n = 1 THEN SceneLeaves ELSE {})
    \cup { Parent(p[1], p[2], kids) : p \in SceneParents, kids \in sceneForest(n - 1) }

sceneForest(n) ==
    IF n = 0 THEN {<<>>}
    ELSE UNION { { <<t>> \o f : t \in sceneTrees(k), f \in sceneForest(n - k) } : k \in 1..n }

InitExtract ==
    /\ pc = "extract"
    /\ data \in UNION { { <<t>> : t \in sceneTrees(n) } : n \in 1..MaxNodes }
    /\ jsx = NotRun
    /\ elem = NotRunElem
    /\ log = <<>>
    /\ text = <<>>
    /\ escaped = NoEscaped
    /\ widget = ""
    /\ IdleServer

\* extractedData = await extractNodeData(selection[0])
ExtractNodeData ==
    /\ pc = "extract"
    /\ ~result.done
    /\ result' = [done |-> TRUE, value |-> extractNodeData(data[1])]
    /\ UNCHANGED <<pc, data, jsx, elem, log, text, escaped, widget, serverVars, pluginVars>>

NextExtract == ExtractNodeData
SpecExtract == InitExtract /\ [][NextExtract]_vars

\* P(scene node, returned node) holds of a returned node and of every node
\* returned below it
RECURSIVE everyReturned(_, _, _)
everyReturned(P(_, _), node, returned) ==
    /\ P(node, returned)
    /\ has(returned, "children") =>
          \A i \in 1..Len(returned.children) :
              everyReturned(P, node.children[i], returned.children[i])

exclusive(node, returned) ==
    /\ ~(has(returned, "svg") /\ has(returned, "children"))
    /\ (node.type \in containerTypes /\ hasTextDescendant(node)) => ~has(returned, "svg")

\* C29 (extraction exclusivity): a returned node does not carry both svg and
\* children, and a container with a TEXT descendant never carries svg,
\* whether the exports succeed or fail.
C29_ExtractionExclusivity ==
    result.done => everyReturned(exclusive, data[1], result.value)

\* a frame with a text child and a group of shapes exported as one svg
C29_Witness ==
    /\ result.done
    /\ data[1].type = "FRAME"
    /\ Len(data[1].children) = 2
    /\ data[1].children[1].type = "TEXT"
    /\ data[1].children[2].type = "FRAME"
    /\ has(result.value, "children")
    /\ ~has(result.value, "svg")
    /\ has(result.value.children[2], "svg")
    /\ ~has(result.value.children[2], "children")

keepsContent(node, returned) ==
    (has(node, "children") /\ node.children # <<>>) =>
        \/ has(returned, "svg")
        \/ has(returned, "image")
        \/ has(returned, "children")

\* C30 (no content loss on export failure): a returned node whose scene node
\* has children carries a vector payload, a raster payload or its children,
\* whether its SVG export succeeds or fails.
C30_NoContentLoss ==
    result.done => everyReturned(keepsContent, data[1], result.value)

----------------------------------------------------------------------------
(* The plugin's event handlers (part_001 l.709-759) *)

MaxEvents == 3

\* the events handled so far
events == plugin.selection.version + plugin.requested

\* the user changes the selection; the selectionchange handler reads
\* figma.currentPage.selection and posts 'no-selection' or starts the extraction
SelectionChange ==
    /\ pc = "plugin"
    /\ events < MaxEvents
    /\ \E empty \in BOOLEAN :
          LET version == plugin.selection.version + 1
          IN  plugin' = [plugin EXCEPT
                  !.selection = [version |-> version, empty |-> empty],
                  !.extracting = IF empty THEN @ ELSE Append(@, version),
                  !.posted = IF empty THEN Append(@, [type |-> "no-selection", of |-> version])
                             ELSE @]
    /\ UNCHANGED <<compilerVars, serverVars>>

\* the UI sends 'extract-data'; the onmessage handler reads the selection and
\* posts an error or starts the extraction
ExtractData ==
    /\ pc = "plugin"
    /\ events < MaxEvents
    /\ plugin' = [plugin EXCEPT
          !.requested = @ + 1,
          !.extracting = IF plugin.selection.empty THEN @
                         ELSE Append(@, plugin.selection.version),
          !.posted = IF plugin.selection.empty
                     THEN Append(@, [type |-> "error", of |-> plugin.selection.version])
                     ELSE @]
    /\ UNCHANGED <<compilerVars, serverVars>>

\* the extractions in flight without the i-th
remove(extracting, i) ==
    SubSeq(extracting, 1, i - 1) \o SubSeq(extracting, i + 1, Len(extracting))

\* await Promise.all(selection.map(extractNodeData)) of one handler settles:
\* figma.ui.postMessage({ type: 'data-extracted', data }) or, in the catch,
\* { type: 'error', message }
ExtractionSettled(i) ==
    /\ pc = "plugin"
    /\ i \in 1..Len(plugin.extracting)
    /\ \E type \in {"data-extracted", "error"} :
          plugin' = [plugin EXCEPT
              !.extracting = remove(@, i),
              !.posted = Append(@, [type |-> type, of |-> plugin.extracting[i]])]
    /\ UNCHANGED <<compilerVars, serverVars>>

InitPluginRun ==
    /\ pc = "plugin"
    /\ data = <<>>
    /\ jsx = NotRun
    /\ elem = NotRunElem
    /\ log = <<>>
    /\ text = <<>>
    /\ escaped = NoEscaped
    /\ widget = ""
    /\ IdleServer

NextPlugin ==
    \/ SelectionChange
    \/ ExtractData
    \/ \E i \in 1..MaxEvents : ExtractionSettled(i)

SpecPlugin == InitPluginRun /\ [][NextPlugin]_vars

dataExtracted == SelectSeq(plugin.posted, LAMBDA m : m.type = "data-extracted")

\* C28 (stale extraction): once the extractions have settled, the last
\* 'data-extracted' message posted carries the data of the most recent
\* selection whenever that selection's data was posted at all.
C28_NoStaleExtraction ==
    (/\ plugin.extracting = <<>>
     /\ \E i \in 1..Len(dataExtracted) : dataExtracted[i].of = plugin.selection.version) =>
        dataExtracted[Len(dataExtracted)].of = plugin.selection.version

----------------------------------------------------------------------------
(* part_003: /generate-component requests served concurrently *)

\* the clients of a concurrent run, each sending one request
Clients == {1, 2}

\* POST /generate-component arrives, whatever the other requests are doing
MuiArrive(c) ==
    /\ pc = "mui"
    /\ reqs[c].at = "idle"
    /\ \E body \in MuiBodies :
          LET req == [NoRequest EXCEPT !.body = body]
          IN  reqs' = [reqs EXCEPT ![c] =
                  IF ~body.hasData THEN respond(req, muiNoData)
                  ELSE [req EXCEPT !.at = "access PROJECT_DIR"]]
    /\ ran' = [ran EXCEPT !.received = @ + 1]
    /\ UNCHANGED <<pluginVars, compilerVars, fs, componentName>>

InitConcurrent ==
    /\ pc = "mui"
    /\ data = <<>>
    /\ jsx = NotRun
    /\ elem = NotRunElem
    /\ log = <<>>
    /\ text = <<>>
    /\ escaped = NoEscaped
    /\ widget = ""
    /\ result = NoResult
    /\ plugin = NoPlugin
    /\ reqs = [c \in Clients |-> NoRequest]
    /\ fs \in {NoFs, scaffolded(NoFs)}
    /\ ran = NoRan
    /\ componentName = NoName

NextConcurrent ==
    \E c \in Clients :
        \/ MuiArrive(c)
        \/ MuiProjectChecked(c)
        \/ MuiScaffold(c)
        \/ MuiInstall(c)
        \/ MuiConfigure(c)
        \/ MuiIndexHtml(c)
        \/ MuiEnsureDirectory(c)
        \/ MuiWriteComponent(c)
        \/ MuiWriteCss(c)
        \/ MuiAppChecked(c)
        \/ MuiWriteApp(c)

SpecConcurrent == InitConcurrent /\ [][NextConcurrent]_vars

inFlight(c) == ~idle(c)

\* the create-react-app commands started so far: those that have ended and
\* those still running
scaffoldsStarted ==
    ran.scaffold + Cardinality({ c \in DOMAIN reqs : reqs[c].at = "exec create-react-app" })

\* C27 (concurrent provisioning): while the requests of a run are all in
\* flight, whatever the interleaving of their awaits, the create-react-app
\* command has been started at most once.
C27_ScaffoldStartedOnce ==
    (\A c \in DOMAIN reqs : inFlight(c)) => scaffoldsStarted <= 1

succeeded(c) ==
    /\ reqs[c].at = "done"
    /\ Len(sent(c)) = 1
    /\ isSuccess(sent(c)[1])

\* the file that index.js resolves './App' to
appFile == IF appJSPath \in DOMAIN fs.files THEN appJSPath ELSE appJSXPath

ownOutput(c) ==
    LET name == reqs[c].componentName
        code == generateComponentCode(reqs[c].body.data).frags
    IN  /\ componentPath(name) \in DOMAIN fs.files
        /\ fs.files[componentPath(name)] = [kind |-> "jsx", code |-> code]
        /\ code # <<>> => code[1].key = 0
        /\ cssPath(name) \in DOMAIN fs.files
        /\ fs.files[cssPath(name)] = [kind |-> "css", code |-> generateCSS(name)]

\* C22 (concurrent independent compilations): once two concurrent requests
\* whose component names differ have both been answered with success, each
\* name's .jsx and .css files hold the output of that request's own tree,
\* numbered from node_0, and the App file imports one of the two components.
C22_IndependentCompilations ==
    ((\A c \in DOMAIN reqs : succeeded(c))
        /\ \A c \in DOMAIN reqs : \A d \in DOMAIN reqs :
              c # d => reqs[c].componentName # reqs[d].componentName) =>
        /\ \A c \in DOMAIN reqs : ownOutput(c)
        /\ appFile \in DOMAIN fs.files
        /\ fs.files[appFile].kind = "app"
        /\ \E c \in DOMAIN reqs : fs.files[appFile].code = reqs[c].componentName

\* two requests with different names that both ran the scaffold, so that
\* each passed the project check before the other's scaffold ended, and both
\* succeeded with a non-empty tree
C22_Witness ==
    /\ Cardinality(DOMAIN reqs) = 2
    /\ \A c \in DOMAIN reqs : succeeded(c) /\ reqs[c].body.data # <<>>
    /\ reqs[1].componentName # reqs[2].componentName
    /\ ran.scaffold = 2

====
